---- MODULE Spec2Model ----
(***************************************************************************)
(* Cascade error reconciliation of the QKD post-processing pipeline:       *)
(* CascadeReconciliator (reconciliation/cascade.py), the binary search     *)
(* primitive (reconciliation/binary_search.py), the backtracking ledger    *)
(* (reconciliation/history.py), the bit utilities (reconciliation/utils.py)*)
(* and the authenticated socket (auth/socket.py).                          *)
(*                                                                         *)
(* Two parties, "initiator" and "responder", run reconcile() as            *)
(* coroutines that suspend only in recv_structured.  Python indices are    *)
(* kept: a key is a function on 0..n-1, a block is a sequence of key       *)
(* indices, block_indices[a:b] is SubSeq(blk, a+1, b).                     *)
(***************************************************************************)
EXTENDS Integers, Sequences, FiniteSets, TLC

(***************************************************************************)
(* Bounds of the model.                                                    *)
(***************************************************************************)
MaxKeyLen == 10
MaxErrors == 2
MaxPasses == 2
MaxSeed == 2
MaxBlockLen == 5
LongKeyLen == 17
LongWindow == 8
LongErrors == 4
LongPasses == 3
MaxPayloadLen == 2
MaxAuthSends == 2
MaxTampers == 1
MaxRuns == 2
SchedulePasses == 4
MaxOverride == 8
MaxFifties == 5
MaxAmpKeyLen == 3
MaxNewLen == 3
MaxSeedLen == 5
MaxParityLen == 3
MaxIndices == 3
MaxQberNum == 600
MaxNegQber == 5
MaxSearchSize == 128
MaxHundreds == 10
MaxLeakSteps == 5

(***************************************************************************)
(* Program constants.                                                      *)
(***************************************************************************)
\* length of the keys of the end-to-end scenario (sample_key_single_error)
ScenarioKeyLen == 8
\* max(4, initial_block_size) in CascadeReconciliator.__init__
MinBlockSize == 4
\* combined_seed = seed * 1000 + pass_idx in permute_indices
SeedStride == 1000

MSG_CASCADE_REQ == "CASCADE_REQ"
MSG_CASCADE_PARITY == "CASCADE_PARITY"
MSG_CASCADE_DONE == "CASCADE_DONE"
MSG_VERIFY_HASH == "VERIFY_HASH"
\* Stands for an envelope whose tag does not verify: recv_structured of the
\* authenticated socket never returns it, it raises IntegrityError.
MSG_UNVERIFIED == "UNVERIFIED"
MSG_BLOCK_PARITIES == "BLOCK_PARITIES"

Roles == {"initiator", "responder"}

Peer(r) == IF r = "initiator" THEN "responder" ELSE "initiator"

Min2(a, b) == IF a < b THEN a ELSE b

Max2(a, b) == IF a < b THEN b ELSE a

RECURSIVE Pow2(_)
Pow2(e) == IF e = 0 THEN 1 ELSE 2 * Pow2(e - 1)

RECURSIVE GCD(_, _)
GCD(a, b) == IF b = 0 THEN a ELSE GCD(b, a % b)

(***************************************************************************)
(* reconciliation/utils.py                                                 *)
(***************************************************************************)
RECURSIVE SumBits(_, _)
SumBits(key, indices) ==
    IF indices = <<>> THEN 0
    ELSE key[Head(indices)] + SumBits(key, Tail(indices))

\* A bounds test that looks at the upper bound only.
compute_parity_raises_upper(key, indices) ==
    IF indices = <<>> THEN "ValueError"
    ELSE IF \E k \in 1..Len(indices) :
                indices[k] >= Cardinality(DOMAIN key)
         THEN "IndexError"
         ELSE "none"

\* compute_parity, lines 49-58: the exception raised on an empty index
\* list or an index out of bounds ("none" when the call returns).
compute_parity_raises(key, indices) ==
    IF indices = <<>> THEN "ValueError"
    ELSE IF \E k \in 1..Len(indices) : indices[k] \notin DOMAIN key
         THEN "IndexError"
         ELSE "none"

\* 1 when some selected bit is set.
compute_any(key, indices) == IF SumBits(key, indices) > 0 THEN 1 ELSE 0

\* compute_parity, lines 61-62: the sum of the selected bits modulo 2.
compute_parity(key, indices) == SumBits(key, indices) % 2

\* The units modulo n in increasing order.
RECURSIVE UnitsFrom(_, _)
UnitsFrom(a, n) ==
    IF a > n THEN <<>>
    ELSE IF GCD(a, n) = 1 THEN <<a>> \o UnitsFrom(a + 1, n)
         ELSE UnitsFrom(a + 1, n)

\* A map on 0..length-1 of stride two, which is no bijection for an even
\* length.
stride_two_indices(length, seed, pass_idx) ==
    [i \in 0..(length - 1) |-> (2 * i + seed + pass_idx) % length]

\* permute_indices: a bijection on 0..length-1 that is a function of
\* (length, seed * 1000 + pass_idx) only.  numpy's generator is not
\* reproduced: the shuffle seeded with combined_seed is stood for by the
\* affine map  i |-> (a * i + c) mod length,  where the stride a is the
\* unit modulo length selected by combined_seed div 1000 and the offset c
\* is combined_seed mod 1000.
permute_indices(length, seed, pass_idx) ==
    LET combined_seed == seed * SeedStride + pass_idx
        units == UnitsFrom(1, length)
        a == units[((combined_seed \div SeedStride) % Len(units)) + 1]
        c == combined_seed % SeedStride
    IN  [i \in 0..(length - 1) |-> (a * i + c) % length]

\* Only the chunks that are full, the shorter last one dropped.
split_into_full_blocks(length, block_size) ==
    [b \in 1..(length \div block_size) |->
        [j \in 1..block_size |-> (b - 1) * block_size + j - 1]]

\* split_into_blocks: contiguous chunks of positions, the last one shorter.
split_into_blocks(length, block_size) ==
    LET nb == (length + block_size - 1) \div block_size
    IN  [b \in 1..nb |->
            LET start == (b - 1) * block_size
                end == Min2(start + block_size, length)
            IN  [j \in 1..(end - start) |-> start + j - 1]]

(***************************************************************************)
(* reconciliation/binary_search.py: calculate_binary_search_leakage        *)
(***************************************************************************)
RECURSIVE CeilLog2From(_, _)
CeilLog2From(k, e) == IF Pow2(e) >= k THEN e ELSE CeilLog2From(k, e + 1)

\* The logarithm rounded down.
floor_log2_leakage(block_size) ==
    IF block_size <= 1 THEN 0 ELSE CeilLog2From(block_size + 1, 0) - 1

\* One bit per position ruled out, as a linear scan of the block would cost.
linear_search_leakage(block_size) ==
    IF block_size <= 1 THEN 0 ELSE block_size - 1

calculate_binary_search_leakage(block_size) ==
    IF block_size <= 1 THEN 0 ELSE CeilLog2From(block_size, 0)

(***************************************************************************)
(* State.                                                                  *)
(***************************************************************************)
VARIABLES
    cfg,               \* the arguments both reconciliators are built with
    key,               \* _key of each party
    leakage_bits,      \* _leakage_bits
    errors_corrected,  \* _errors_corrected
    ledger,            \* BacktrackManager._history: per recorded pass, the
                       \* cached parity of each block
    pc,                \* where each coroutine stands
    pass_index,        \* loop variable of reconcile()
    local_parities,    \* local of _exchange_and_correct_blocks
    mismatched_blocks, \* blocks of the pass still to be searched
    stack,             \* active _backtrack calls, innermost last
    search,            \* the binary search in progress
    chan,              \* chan[r]: messages sent to r and not yet received
    result,            \* what the coroutine returned or raised
    key0,              \* the keys at construction
    searches,          \* blocks each party has run a binary search on
    trips,             \* parity replies received in the initiator's search
    sent,              \* number of messages each party has sent
    auth_key,          \* AuthenticatedSocket._key of each party
    wire,              \* wire[r]: envelopes on the transport towards r
    outcome,           \* what each recv_structured call returned or raised
    seen,              \* tags that have appeared on the transport
    tampers,           \* alterations made on the transport so far
    results            \* what the earlier runs on the same arguments ended with

vars == <<cfg, key, leakage_bits, errors_corrected, ledger, pc, pass_index,
          local_parities, mismatched_blocks, stack, search, chan, result,
          key0, searches, trips, sent, auth_key, wire, outcome, seen,
          tampers, results>>

authVars == <<auth_key, wire, outcome, seen, tampers>>

NoSearch == [blk |-> <<>>, left |-> 0, right |-> 0, ret |-> "none", pass |-> 0]

NoResult == [kind |-> "none", value |-> 0]

(***************************************************************************)
(* CascadeReconciliator.__init__ and the per-pass block structure.         *)
(***************************************************************************)
\* __init__: the initial block size from an explicit override.
InitialBlockSize(initial_block_size) == Max2(MinBlockSize, initial_block_size)

\* reconcile() lines 158-169: _pass_block_sizes is filled pass by pass,
\* block_size starting at _initial_block_size and doubled after each append.
RECURSIVE PassBlockSizesFrom(_, _)
PassBlockSizesFrom(block_size, passes) ==
    IF passes = 0
    THEN <<>>
    ELSE <<block_size>> \o PassBlockSizesFrom(block_size * 2, passes - 1)

pass_block_sizes == PassBlockSizesFrom(cfg.initial_block_size, cfg.num_passes)

\* A schedule that keeps the initial block size in every pass.
PassBlockSizeFixed(p) == cfg.initial_block_size

\* reconcile() line 176: the block size handed to _run_pass for pass p.
PassBlockSize(p) == pass_block_sizes[p + 1]

\* _run_pass: the blocks of pass p as sequences of original key indices.
OriginalBlocks(p) ==
    LET permutation == permute_indices(cfg.n, cfg.rng_seed, p)
        blocks == split_into_blocks(cfg.n, PassBlockSize(p))
    IN  [b \in 1..Len(blocks) |->
            [j \in 1..Len(blocks[b]) |-> permutation[blocks[b][j]]]]

InBlock(blk, idx) == \E k \in 1..Len(blk) : blk[k] = idx

(***************************************************************************)
(* reconciliation/history.py: BacktrackManager                             *)
(***************************************************************************)
\* A reverse index that files every index under the first block of a pass.
IndexToFirstBlock(r, idx) == [k \in 1..Len(ledger[r]) |-> <<k - 1, 1>>]

\* _index_to_blocks[idx]: the (pass, block) pairs recorded for idx, in the
\* order record_block appended them.
IndexToBlocks(r, idx) ==
    [k \in 1..Len(ledger[r]) |->
        <<k - 1, CHOOSE b \in 1..Len(OriginalBlocks(k - 1)) :
                    InBlock(OriginalBlocks(k - 1)[b], idx)>>]

\* The lookup with the pass in progress counted among the earlier ones.
find_blocks_upto(r, flipped_index, current_pass) ==
    IF ledger[r] = <<>> \/ flipped_index \notin 0..(cfg.n - 1) THEN <<>>
    ELSE SelectSeq(IndexToBlocks(r, flipped_index),
                   LAMBDA e : e[1] <= current_pass)

find_affected_blocks(r, flipped_index, current_pass) ==
    IF ledger[r] = <<>> \/ flipped_index \notin 0..(cfg.n - 1) THEN <<>>
    ELSE SelectSeq(IndexToBlocks(r, flipped_index),
                   LAMBDA e : e[1] < current_pass)

(***************************************************************************)
(* Transport: a reliable FIFO queue per direction (MockSocket).            *)
(***************************************************************************)
\* A message that loses its payload.
MsgBare(header, payload) == [header |-> header, payload |-> <<>>]

Msg(header, payload) == [header |-> header, payload |-> payload]

\* The bit is left as it was.
NoFlip(k, idx) == k

\* key[idx] = 1 - key[idx]
Flip(k, idx) == [k EXCEPT ![idx] = 1 - @]

\* A transport that hands over the newest message first.
SendNewestFirst(ch, r, header, payload) ==
    [ch EXCEPT ![Peer(r)] = <<Msg(header, payload)>> \o @]

\* A transport that delivers every message twice.
SendTwice(ch, r, header, payload) ==
    [ch EXCEPT ![Peer(r)] =
        Append(Append(@, Msg(header, payload)), Msg(header, payload))]

Send(ch, r, header, payload) ==
    [ch EXCEPT ![Peer(r)] = Append(@, Msg(header, payload))]

\* What a receive point raises on a message it cannot take: IntegrityError
\* out of recv_structured (auth/socket.py lines 183-186) when the tag fails,
\* RuntimeError from the header test that follows the receive.
RecvFailure(header) ==
    IF header = MSG_UNVERIFIED THEN "IntegrityError" ELSE "RuntimeError"

\* A failure that is recorded while the coroutine stays where it is.
RaiseSwallowed(r, kind, value) ==
    /\ pc' = pc
    /\ result' = [result EXCEPT ![r] = [kind |-> kind, value |-> value]]

Raise(r, kind, value) ==
    /\ pc' = [pc EXCEPT ![r] = "error"]
    /\ result' = [result EXCEPT ![r] = [kind |-> kind, value |-> value]]

(***************************************************************************)
(* cascade.py: the tail of the two search loops.  The search (or the       *)
(* direct flip) has returned error_idx; ret names the caller: "pass" is    *)
(* the loop of _exchange_and_correct_blocks (lines 319-325), "backtrack"   *)
(* the loop of _backtrack (lines 422-427), "top" a caller outside          *)
(* reconcile().  stk is the caller's stack of _backtrack calls.            *)
(***************************************************************************)
SearchReturns(r, error_idx, ret, p, stk) ==
    IF ret = "top"
    THEN /\ pc' = [pc EXCEPT ![r] = "done"]
         /\ result' = [result EXCEPT
                          ![r] = [kind |-> "returned", value |-> error_idx]]
         /\ stack' = [stack EXCEPT ![r] = stk]
         /\ UNCHANGED errors_corrected
    ELSE /\ errors_corrected' = [errors_corrected EXCEPT ![r] = @ + 1]
         /\ stack' = [stack EXCEPT ![r] = Append(stk,
                [cur |-> p, todo |-> find_affected_blocks(r, error_idx, p)])]
         /\ pc' = [pc EXCEPT ![r] = "backtrack"]
         /\ UNCHANGED result

\* Where the caller's loop goes on when _binary_search_block returned None.
LoopPc(ret) ==
    IF ret = "top" THEN "done" ELSE IF ret = "pass" THEN "blocks"
    ELSE "backtrack"

(***************************************************************************)
(* cascade.py: CascadeReconciliator._binary_search_block, up to its first  *)
(* suspension.  A block of one index is flipped locally by whichever       *)
(* party runs this (lines 350-354); a longer block starts the role's       *)
(* binary search (lines 357-367).                                          *)
(***************************************************************************)
BinarySearchBlock(r, block_indices, ret, p, stk) ==
    IF Len(block_indices) = 0
    THEN /\ pc' = [pc EXCEPT ![r] = LoopPc(ret)]
         /\ stack' = [stack EXCEPT ![r] = stk]
         /\ UNCHANGED <<key, leakage_bits, search, searches, trips,
                        errors_corrected, result>>
    ELSE IF Len(block_indices) = 1
    THEN /\ key' = [key EXCEPT ![r] = Flip(@, block_indices[1])]
         /\ searches' = [searches EXCEPT ![r] = Append(@, block_indices)]
         /\ SearchReturns(r, block_indices[1], ret, p, stk)
         /\ UNCHANGED <<leakage_bits, search, trips>>
    ELSE /\ leakage_bits' = [leakage_bits EXCEPT ![r] =
                @ + calculate_binary_search_leakage(Len(block_indices))]
         /\ search' = [search EXCEPT ![r] =
                [blk |-> block_indices, left |-> 0,
                 right |-> Len(block_indices), ret |-> ret, pass |-> p]]
         /\ searches' = [searches EXCEPT ![r] = Append(@, block_indices)]
         /\ trips' = IF r = "initiator" THEN 0 ELSE trips
         /\ pc' = [pc EXCEPT ![r] =
                IF r = "initiator" THEN "bs_init" ELSE "bs_resp"]
         /\ stack' = [stack EXCEPT ![r] = stk]
         /\ UNCHANGED <<key, errors_corrected, result>>

(***************************************************************************)
(* cascade.py: reconcile(), _run_pass, _exchange_and_correct_blocks        *)
(***************************************************************************)
\* reconcile() lines 175-176 and _exchange_and_correct_blocks lines 275-282:
\* the next pass starts, the local parities are computed and the initiator
\* sends them; both parties then suspend in recv_structured.
RunPass(r) ==
    /\ pc[r] = "pass"
    /\ pass_index[r] < cfg.num_passes
    /\ LET blocks == OriginalBlocks(pass_index[r])
           lp == [b \in 1..Len(blocks) |-> compute_parity(key[r], blocks[b])]
       IN  /\ local_parities' = [local_parities EXCEPT ![r] = lp]
           /\ IF r = "initiator"
              THEN /\ chan' = Send(chan, r, MSG_BLOCK_PARITIES, lp)
                   /\ sent' = [sent EXCEPT ![r] = @ + 1]
              ELSE UNCHANGED <<chan, sent>>
    /\ pc' = [pc EXCEPT ![r] = "recv_parities"]
    /\ UNCHANGED <<cfg, results, authVars, key, leakage_bits, errors_corrected, ledger,
                   pass_index, mismatched_blocks, stack, search, result,
                   key0, searches, trips>>

\* reconcile() line 178: all passes are done.
Return(r) ==
    /\ pc[r] = "pass"
    /\ pass_index[r] = cfg.num_passes
    /\ pc' = [pc EXCEPT ![r] = "done"]
    /\ result' = [result EXCEPT
                     ![r] = [kind |-> "returned", value |-> leakage_bits[r]]]
    /\ UNCHANGED <<cfg, results, authVars, key, leakage_bits, errors_corrected, ledger,
                   pass_index, local_parities, mismatched_blocks, stack,
                   search, chan, key0, searches, trips, sent>>

\* _exchange_and_correct_blocks lines 282-316: the peer's parities arrive.
RecvBlockParities(r) ==
    /\ pc[r] = "recv_parities"
    /\ chan[r] # <<>>
    /\ LET response == Head(chan[r])
           rest == [chan EXCEPT ![r] = Tail(@)]
           blocks == OriginalBlocks(pass_index[r])
           lp == local_parities[r]
       IN  IF response.header # MSG_BLOCK_PARITIES
           THEN /\ Raise(r, RecvFailure(response.header), response.header)
                /\ chan' = rest
                /\ UNCHANGED <<leakage_bits, ledger, mismatched_blocks, sent>>
           ELSE LET remote_parities == response.payload
                    both == Min2(Len(lp), Len(remote_parities))
                IN  /\ IF r = "initiator"
                       THEN /\ chan' = rest
                            /\ UNCHANGED sent
                       ELSE /\ chan' = Send(rest, r, MSG_BLOCK_PARITIES, lp)
                            /\ sent' = [sent EXCEPT ![r] = @ + 1]
                    /\ leakage_bits' =
                          [leakage_bits EXCEPT ![r] = @ + Len(blocks)]
                    /\ ledger' = [ledger EXCEPT ![r] = Append(@, lp)]
                    /\ mismatched_blocks' = [mismatched_blocks EXCEPT ![r] =
                          SelectSeq([b \in 1..both |-> b],
                             LAMBDA b : lp[b] # remote_parities[b])]
                    /\ pc' = [pc EXCEPT ![r] = "blocks"]
                    /\ UNCHANGED result
    /\ UNCHANGED <<cfg, results, authVars, key, errors_corrected, pass_index, local_parities,
                   stack, search, key0, searches, trips>>

\* _exchange_and_correct_blocks lines 319-320: the next mismatched block of
\* the pass is handed to _binary_search_block.
SearchBlock(r) ==
    /\ pc[r] = "blocks"
    /\ mismatched_blocks[r] # <<>>
    /\ mismatched_blocks' = [mismatched_blocks EXCEPT ![r] = Tail(@)]
    /\ BinarySearchBlock(r,
          OriginalBlocks(pass_index[r])[Head(mismatched_blocks[r])],
          "pass", pass_index[r], stack[r])
    /\ UNCHANGED <<cfg, results, authVars, ledger, pass_index, local_parities, chan, key0, sent>>

\* The loop over the mismatched blocks is exhausted: _run_pass returns and
\* reconcile() moves to the next pass.
EndPass(r) ==
    /\ pc[r] = "blocks"
    /\ mismatched_blocks[r] = <<>>
    /\ pass_index' = [pass_index EXCEPT ![r] = @ + 1]
    /\ pc' = [pc EXCEPT ![r] = "pass"]
    /\ UNCHANGED <<cfg, results, authVars, key, leakage_bits, errors_corrected, ledger,
                   local_parities, mismatched_blocks, stack, search, chan,
                   result, key0, searches, trips, sent>>

(***************************************************************************)
(* binary_search.py: binary_search_initiator                               *)
(***************************************************************************)
\* A search that peels one index off the left instead of halving.
MidLinear(left, right) == left + 1

\* Line 98: mid = (left + right) // 2.
Mid(left, right) == (left + right) \div 2

\* The two halves taken for one another.
NarrowIntervalSwapped(s, mid, local_left_parity, remote_left_parity) ==
    IF local_left_parity # remote_left_parity
    THEN [s EXCEPT !.left = mid]
    ELSE [s EXCEPT !.right = mid]

\* Lines 117-122: a mismatch of the left half's parities keeps the left
\* half, a match keeps the right half.
NarrowInterval(s, mid, local_left_parity, remote_left_parity) ==
    IF local_left_parity # remote_left_parity
    THEN [s EXCEPT !.right = mid]
    ELSE [s EXCEPT !.left = mid]

\* Lines 97-103 and 124-138: the head of the while loop.  While the
\* interval holds more than one index the left half is requested; otherwise
\* the bit at block_indices[left] is flipped and CASCADE_DONE is sent.
BinarySearchInitiatorStep(r) ==
    /\ pc[r] = "bs_init"
    /\ LET s == search[r]
           mid == Mid(s.left, s.right)
       IN  IF s.right - s.left > 1
           THEN /\ chan' = Send(chan, r, MSG_CASCADE_REQ,
                                SubSeq(s.blk, s.left + 1, mid))
                /\ pc' = [pc EXCEPT ![r] = "bs_wait"]
                /\ UNCHANGED <<key, search, stack, errors_corrected, result>>
           ELSE LET error_index == s.blk[s.left + 1]
                IN  /\ key' = [key EXCEPT ![r] = Flip(@, error_index)]
                    /\ chan' = Send(chan, r, MSG_CASCADE_DONE, error_index)
                    /\ search' = [search EXCEPT ![r] = NoSearch]
                    /\ SearchReturns(r, error_index, s.ret, s.pass, stack[r])
    /\ sent' = [sent EXCEPT ![r] = @ + 1]
    /\ UNCHANGED <<cfg, results, authVars, leakage_bits, ledger, pass_index, local_parities,
                   mismatched_blocks, key0, searches, trips>>

\* Lines 106-122: the responder's parity of the left half arrives.
BinarySearchInitiatorRecv(r) ==
    /\ pc[r] = "bs_wait"
    /\ chan[r] # <<>>
    /\ LET response == Head(chan[r])
           s == search[r]
           mid == Mid(s.left, s.right)
           left_half_indices == SubSeq(s.blk, s.left + 1, mid)
       IN  IF response.header # MSG_CASCADE_PARITY
           THEN /\ Raise(r, RecvFailure(response.header), response.header)
                /\ UNCHANGED <<search, trips>>
           ELSE /\ search' = [search EXCEPT ![r] =
                      NarrowInterval(s, mid,
                          compute_parity(key[r], left_half_indices),
                          response.payload)]
                /\ trips' = trips + 1
                /\ pc' = [pc EXCEPT ![r] = "bs_init"]
                /\ UNCHANGED result
    /\ chan' = [chan EXCEPT ![r] = Tail(@)]
    /\ UNCHANGED <<cfg, results, authVars, key, leakage_bits, errors_corrected, ledger,
                   pass_index, local_parities, mismatched_blocks, stack,
                   key0, searches, sent>>

(***************************************************************************)
(* binary_search.py: binary_search_responder, one turn of its loop         *)
(* (lines 190-217).  The responder answers a request for any index list    *)
(* and leaves on CASCADE_DONE without touching its key.                    *)
(***************************************************************************)
BinarySearchResponderRecv(r) ==
    /\ pc[r] = "bs_resp"
    /\ chan[r] # <<>>
    /\ LET message == Head(chan[r])
           rest == [chan EXCEPT ![r] = Tail(@)]
           s == search[r]
       IN  IF message.header = MSG_CASCADE_REQ
           THEN LET local_parity == compute_parity(key[r], message.payload)
                    raises == compute_parity_raises(key[r], message.payload)
                IN  IF raises # "none"
                    THEN /\ Raise(r, raises, message.payload)
                         /\ chan' = rest
                         /\ UNCHANGED <<search, stack, errors_corrected, sent>>
                    ELSE /\ chan' = Send(rest, r, MSG_CASCADE_PARITY,
                                         local_parity)
                         /\ sent' = [sent EXCEPT ![r] = @ + 1]
                         /\ UNCHANGED <<pc, search, stack, errors_corrected,
                                        result>>
           ELSE IF message.header = MSG_CASCADE_DONE
           THEN /\ chan' = rest
                /\ search' = [search EXCEPT ![r] = NoSearch]
                /\ SearchReturns(r, message.payload, s.ret, s.pass, stack[r])
                /\ UNCHANGED sent
           ELSE /\ Raise(r, RecvFailure(message.header), message.header)
                /\ chan' = rest
                /\ UNCHANGED <<search, stack, errors_corrected, sent>>
    /\ UNCHANGED <<cfg, results, authVars, key, leakage_bits, ledger, pass_index,
                   local_parities, mismatched_blocks, key0, searches, trips>>

(***************************************************************************)
(* cascade.py: CascadeReconciliator._backtrack                             *)
(***************************************************************************)
\* Lines 403-422: the next affected block of the innermost _backtrack call.
\* Its cached parity is replaced by the recomputed one and, when the two
\* differ, the block is handed to _binary_search_block.
BacktrackBlock(r) ==
    /\ pc[r] = "backtrack"
    /\ stack[r] # <<>>
    /\ LET top == stack[r][Len(stack[r])]
       IN  /\ top.todo # <<>>
           /\ LET p == Head(top.todo)[1]
                  b == Head(top.todo)[2]
                  indices == OriginalBlocks(p)[b]
                  old_parity == ledger[r][p + 1][b]
                  new_local_parity == compute_parity(key[r], indices)
                  stk == [stack[r] EXCEPT ![Len(stack[r])].todo = Tail(@)]
              IN  /\ ledger' = [ledger EXCEPT
                                   ![r][p + 1][b] = new_local_parity]
                  /\ IF new_local_parity # old_parity
                     THEN BinarySearchBlock(r, indices, "backtrack", p, stk)
                     ELSE /\ stack' = [stack EXCEPT ![r] = stk]
                          /\ UNCHANGED <<key, leakage_bits, search, searches,
                                         trips, errors_corrected, result, pc>>
    /\ UNCHANGED <<cfg, results, authVars, pass_index, local_parities, mismatched_blocks, chan,
                   key0, sent>>

\* The loop of the innermost _backtrack call is exhausted: it returns to
\* the loop that called it (an outer _backtrack, or the loop over the
\* mismatched blocks of the pass).
BacktrackReturn(r) ==
    /\ pc[r] = "backtrack"
    /\ stack[r] # <<>>
    /\ stack[r][Len(stack[r])].todo = <<>>
    /\ stack' = [stack EXCEPT ![r] = SubSeq(@, 1, Len(@) - 1)]
    /\ pc' = [pc EXCEPT ![r] =
                 IF Len(stack[r]) = 1 THEN "blocks" ELSE "backtrack"]
    /\ UNCHANGED <<cfg, results, authVars, key, leakage_bits, errors_corrected, ledger,
                   pass_index, local_parities, mismatched_blocks, search,
                   chan, result, key0, searches, trips, sent>>

(***************************************************************************)
(* Two reconciliators built with the same seed, number of passes and       *)
(* block size over keys of equal length, the initiator's key differing     *)
(* from the responder's in at most MaxErrors positions.                    *)
(***************************************************************************)
\* initial_block_size of the end-to-end scenario
ScenarioBlockSize == 4

ResponderKeys(n) == {[i \in 0..(n - 1) |-> 0], [i \in 0..(n - 1) |-> i % 2]}

ErrorSets(n) == {E \in SUBSET (0..(n - 1)) : Cardinality(E) <= MaxErrors}

WithErrors(k, E) == [i \in DOMAIN k |-> IF i \in E THEN 1 - k[i] ELSE k[i]]

Diff(ka, kb) == {i \in DOMAIN ka : ka[i] # kb[i]}

\* No authenticated traffic: the reconciliators talk over the bare transport.
NoAuth ==
    /\ auth_key = [r \in Roles |-> ""]
    /\ wire = [r \in Roles |-> <<>>]
    /\ outcome = [r \in Roles |-> <<>>]
    /\ seen = {}
    /\ tampers = 0

Idle(kI, kR) ==
    /\ key = [initiator |-> kI, responder |-> kR]
    /\ key0 = key
    /\ leakage_bits = [r \in Roles |-> 0]
    /\ errors_corrected = [r \in Roles |-> 0]
    /\ ledger = [r \in Roles |-> <<>>]
    /\ pass_index = [r \in Roles |-> 0]
    /\ local_parities = [r \in Roles |-> <<>>]
    /\ mismatched_blocks = [r \in Roles |-> <<>>]
    /\ stack = [r \in Roles |-> <<>>]
    /\ chan = [r \in Roles |-> <<>>]
    /\ result = [r \in Roles |-> NoResult]
    /\ searches = [r \in Roles |-> <<>>]
    /\ trips = 0
    /\ sent = [r \in Roles |-> 0]
    /\ results = <<>>

Init ==
    \E n \in ScenarioKeyLen..MaxKeyLen, seed \in 0..MaxSeed,
       num_passes \in 1..MaxPasses :
      \E kR \in ResponderKeys(n), E \in ErrorSets(n) :
        /\ cfg = [n |-> n, rng_seed |-> seed, num_passes |-> num_passes,
                  initial_block_size |-> InitialBlockSize(ScenarioBlockSize),
                  entry |-> "reconcile"]
        /\ Idle(WithErrors(kR, E), kR)
        /\ search = [r \in Roles |-> NoSearch]
        /\ pc = [r \in Roles |-> "pass"]
        /\ NoAuth

Next ==
    \E r \in Roles :
        \/ RunPass(r)
        \/ Return(r)
        \/ RecvBlockParities(r)
        \/ SearchBlock(r)
        \/ EndPass(r)
        \/ BinarySearchInitiatorStep(r)
        \/ BinarySearchInitiatorRecv(r)
        \/ BinarySearchResponderRecv(r)
        \/ BacktrackBlock(r)
        \/ BacktrackReturn(r)

Spec == Init /\ [][Next]_vars

(***************************************************************************)
(* The binary search on its own, as the unit tests drive it: both parties  *)
(* are handed the same block, either by calling binary_search_initiator    *)
(* and binary_search_responder directly ("direct") or through              *)
(* _binary_search_block ("block").  The keys have MaxBlockLen bits, the    *)
(* block is any set of key indices, listed in the order a permutation of   *)
(* the family puts them in.                                                *)
(***************************************************************************)
RECURSIVE SeqOfPerm(_, _, _)
SeqOfPerm(perm, i, n) ==
    IF i >= n THEN <<>> ELSE <<perm[i]>> \o SeqOfPerm(perm, i + 1, n)

SearchBlocks(n) ==
    {SelectSeq(SeqOfPerm(permute_indices(n, seed, 0), 0, n),
               LAMBDA i : i \in S) :
        seed \in 0..MaxSeed, S \in SUBSET (0..(n - 1))}

\* binary_search_initiator / binary_search_responder, lines 89-94 and
\* 185-188: an empty block is refused, otherwise the search starts on the
\* whole block.
CallBinarySearch(r) ==
    /\ pc[r] = "call_direct"
    /\ IF search[r].blk = <<>>
       THEN /\ Raise(r, "ValueError", 0)
            /\ UNCHANGED <<search, searches, trips>>
       ELSE /\ search' = [search EXCEPT ![r].right = Len(search[r].blk)]
            /\ searches' = [searches EXCEPT ![r] = Append(@, search[r].blk)]
            /\ trips' = IF r = "initiator" THEN 0 ELSE trips
            /\ pc' = [pc EXCEPT ![r] =
                   IF r = "initiator" THEN "bs_init" ELSE "bs_resp"]
            /\ UNCHANGED result
    /\ UNCHANGED <<cfg, results, authVars, key, leakage_bits, errors_corrected, ledger,
                   pass_index, local_parities, mismatched_blocks, stack,
                   chan, key0, sent>>

\* A call of _binary_search_block from outside reconcile().
CallBinarySearchBlock(r) ==
    /\ pc[r] = "call_block"
    /\ BinarySearchBlock(r, search[r].blk, "top", 0, stack[r])
    /\ UNCHANGED <<cfg, results, authVars, ledger, pass_index, local_parities,
                   mismatched_blocks, chan, key0, sent>>

InitBS ==
    \E blk \in SearchBlocks(MaxBlockLen), E \in SUBSET (0..(MaxBlockLen - 1)),
       kR \in ResponderKeys(MaxBlockLen), entry \in {"direct", "block"} :
        /\ cfg = [n |-> MaxBlockLen, rng_seed |-> 0, num_passes |-> 0,
                  initial_block_size |-> InitialBlockSize(ScenarioBlockSize),
                  entry |-> entry]
        /\ Idle(WithErrors(kR, E), kR)
        /\ search = [r \in Roles |->
                        [blk |-> blk, left |-> 0, right |-> 0,
                         ret |-> "top", pass |-> 0]]
        /\ pc = [r \in Roles |->
                    IF entry = "direct" THEN "call_direct" ELSE "call_block"]
        /\ NoAuth

NextBS ==
    \E r \in Roles :
        \/ CallBinarySearch(r)
        \/ CallBinarySearchBlock(r)
        \/ BinarySearchInitiatorStep(r)
        \/ BinarySearchInitiatorRecv(r)
        \/ BinarySearchResponderRecv(r)

SpecBS == InitBS /\ [][NextBS]_vars

(***************************************************************************)
(* Longer keys with a burst of errors: LongKeyLen bits, up to LongErrors   *)
(* differing positions among the first LongWindow, LongPasses passes.      *)
(***************************************************************************)
BurstSets == {E \in SUBSET (0..(LongWindow - 1)) : Cardinality(E) <= LongErrors}

InitLong ==
    \E seed \in 0..MaxSeed, E \in BurstSets :
        LET kR == [i \in 0..(LongKeyLen - 1) |-> i % 2]
        IN  /\ cfg = [n |-> LongKeyLen, rng_seed |-> seed,
                      num_passes |-> LongPasses,
                      initial_block_size |->
                          InitialBlockSize(ScenarioBlockSize),
                      entry |-> "reconcile"]
            /\ Idle(WithErrors(kR, E), kR)
            /\ search = [r \in Roles |-> NoSearch]
            /\ pc = [r \in Roles |-> "pass"]
            /\ NoAuth

SpecLong == InitLong /\ [][Next]_vars

(***************************************************************************)
(* Reconciliation over a transport that misbehaves: at most MaxTampers     *)
(* times a message in flight is replaced by one of the next protocol stage *)
(* (VERIFY_HASH, expected at no receive point of reconcile) or by an       *)
(* envelope whose tag does not verify.                                     *)
(***************************************************************************)
Disturb(r) ==
    /\ cfg.entry = "reconcile"
    /\ tampers < MaxTampers
    /\ chan[r] # <<>>
    /\ \E i \in 1..Len(chan[r]), header \in {MSG_VERIFY_HASH, MSG_UNVERIFIED} :
         chan' = [chan EXCEPT ![r][i].header = header]
    /\ tampers' = tampers + 1
    /\ UNCHANGED <<cfg, results, key, leakage_bits, errors_corrected, ledger, pc,
                   pass_index, local_parities, mismatched_blocks, stack,
                   search, result, key0, searches, trips, sent, auth_key,
                   wire, outcome, seen>>

NextFaulty ==
    \E r \in Roles :
        \/ RunPass(r)
        \/ Return(r)
        \/ RecvBlockParities(r)
        \/ SearchBlock(r)
        \/ EndPass(r)
        \/ BinarySearchInitiatorStep(r)
        \/ BinarySearchInitiatorRecv(r)
        \/ BinarySearchResponderRecv(r)
        \/ BacktrackBlock(r)
        \/ BacktrackReturn(r)
        \/ Disturb(r)

SpecFaulty == InitLong /\ [][NextFaulty]_vars

(***************************************************************************)
(* The authenticated channel, auth/socket.py.  A header is a string, held  *)
(* as its sequence of code points; a payload is an int, or a list of       *)
(* MaxPayloadLen bits.                 HMAC-SHA256 is taken as an ideal    *)
(* MAC: two tags are equal exactly when key and data are.  The transport   *)
(* is in the hands of an adversary who holds none of the parties' keys.    *)
(***************************************************************************)
Headers == {<<80>>, <<80, 233>>}

IntPayload(n) == [type |-> "int", v |-> <<n>>]

ListPayload(bits) == [type |-> "list", v |-> bits]

\* A parity, or the parities of a pass with MaxPayloadLen blocks.
Payloads ==
    {IntPayload(n) : n \in 0..1}
        \cup {ListPayload([k \in 1..MaxPayloadLen |-> k % 2])}

RECURSIVE Concat(_)
Concat(seqs) == IF seqs = <<>> THEN <<>> ELSE Head(seqs) \o Concat(Tail(seqs))

\* Line 131 and line 179: header.encode("utf-8"), for code points below
\* 2048.
Utf8(header) ==
    Concat([k \in 1..Len(header) |->
               IF header[k] < 128 THEN <<header[k]>>
               ELSE <<192 + (header[k] \div 64), 128 + (header[k] % 64)>>])

\* _serialize_payload: pickle.dumps(payload, protocol=5).  PROTO 5; the
\* opcodes of the value and STOP, in a FRAME when they are 4 bytes or more.
PickleOps(payload) ==
    IF payload.type = "int"
    THEN <<75, payload.v[1]>>
    ELSE <<93, 148>> \o
         ( IF Len(payload.v) = 0 THEN <<>>
           ELSE IF Len(payload.v) = 1 THEN <<75, payload.v[1], 97>>
           ELSE <<40>>
                \o Concat([k \in 1..Len(payload.v) |-> <<75, payload.v[k]>>])
                \o <<101>> )

serialize_payload(payload) ==
    LET ops == PickleOps(payload) \o <<46>>
    IN  <<128, 5>> \o
        ( IF Len(ops) >= 4
          THEN <<149, Len(ops) % 256, Len(ops) \div 256, 0, 0, 0, 0, 0, 0>>
               \o ops
          ELSE ops )

\* auth.py, lines 37-38 and 66-67 (the module the auth package shadows):
\* only pickle.dumps(payload) is signed.
DataToSignPayloadOnly(header, payload) == serialize_payload(payload)

\* Lines 128-132 and 178-180: header_bytes + payload_bytes.
DataToSign(header, payload) == Utf8(header) \o serialize_payload(payload)

\* _compute_hmac: hmac.new(self._key, data, hashlib.sha256).digest().
compute_hmac(k, data) == [kind |-> "bytes", key |-> k, data |-> data]

\* A second element of the envelope's payload that is a str, not bytes.
TextTag == [kind |-> "str", key |-> "", data |-> <<>>]

\* A byte string of the wrong size: no digest at all.
ShortTag == [kind |-> "bytes", key |-> "", data |-> <<>>]

\* The pre-shared keys a socket may be built with, and a key no party holds.
AuthKeys == {"k1", "k2"}

AdversaryKey == "k0"

\* send_structured, lines 114-139.  The envelope is (header, (payload,
\* tag)); "orig" remembers how it left the sender.
AuthSend(r) ==
    /\ cfg.entry = "auth"
    /\ sent["initiator"] + sent["responder"] < MaxAuthSends
    /\ \E header \in Headers, payload \in Payloads :
         LET tag == compute_hmac(auth_key[r], DataToSign(header, payload))
             orig == [from |-> r, header |-> header, payload |-> payload,
                      tag |-> tag]
             envelope == [header |-> header, shape |-> "pair",
                          payload |-> payload, tag |-> tag, orig |-> orig]
         IN  /\ wire' = [wire EXCEPT ![Peer(r)] = Append(@, envelope)]
             /\ seen' = seen \cup {tag}
    /\ sent' = [sent EXCEPT ![r] = @ + 1]
    /\ UNCHANGED <<cfg, results, key, leakage_bits, errors_corrected, ledger, pc,
                   pass_index, local_parities, mismatched_blocks, stack,
                   search, chan, result, key0, searches, trips, auth_key,
                   outcome, tampers>>

\* What the adversary can put in place of a tag: one it has seen, one it
\* computes under its own key, a byte string of the wrong size, or
\* something that is not a byte string.
AdversaryTags(envelope) ==
    seen \cup {compute_hmac(AdversaryKey,
                            DataToSign(envelope.header, envelope.payload)),
               ShortTag, TextTag}

\* The transport between the two sockets (line 139 to line 167): the
\* adversary alters one part of an envelope in flight.
Tamper(r) ==
    /\ cfg.entry = "auth"
    /\ tampers < MaxTampers
    /\ \E i \in 1..Len(wire[r]) :
         \/ \E header \in Headers \ {wire[r][i].header} :
              wire' = [wire EXCEPT ![r][i].header = header]
         \/ \E payload \in Payloads \ {wire[r][i].payload} :
              wire' = [wire EXCEPT ![r][i].payload = payload]
         \/ \E tag \in AdversaryTags(wire[r][i]) \ {wire[r][i].tag} :
              wire' = [wire EXCEPT ![r][i].tag = tag]
         \/ \E shape \in {"scalar", "triple"} \ {wire[r][i].shape} :
              wire' = [wire EXCEPT ![r][i].shape = shape]
    /\ tampers' = tampers + 1
    /\ UNCHANGED <<cfg, results, key, leakage_bits, errors_corrected, ledger, pc,
                   pass_index, local_parities, mismatched_blocks, stack,
                   search, chan, result, key0, searches, trips, sent,
                   auth_key, outcome, seen>>

NoMsg == [header |-> <<>>, payload |-> IntPayload(0)]

\* A receiver that signs the payload bytes before the header bytes.
AuthRecvOutcomePayloadFirst(r, envelope) ==
    LET expected_tag ==
            compute_hmac(auth_key[r],
                         serialize_payload(envelope.payload)
                             \o Utf8(envelope.header))
    IN  IF envelope.shape # "pair" \/ envelope.tag # expected_tag
        THEN [kind |-> "IntegrityError", msg |-> NoMsg, env |-> envelope]
        ELSE [kind |-> "returned",
              msg |-> Msg(envelope.header, envelope.payload),
              env |-> envelope]

\* recv_structured, lines 141-189.
AuthRecvOutcome(r, envelope) ==
    LET expected_tag ==
            compute_hmac(auth_key[r],
                         DataToSign(envelope.header, envelope.payload))
    IN  IF envelope.shape # "pair"
        THEN [kind |-> "IntegrityError", msg |-> NoMsg, env |-> envelope]
        ELSE IF envelope.tag.kind # "bytes"
        THEN [kind |-> "TypeError", msg |-> NoMsg, env |-> envelope]
        ELSE IF envelope.tag # expected_tag
        THEN [kind |-> "IntegrityError", msg |-> NoMsg, env |-> envelope]
        ELSE [kind |-> "returned",
              msg |-> Msg(envelope.header, envelope.payload),
              env |-> envelope]

AuthRecv(r) ==
    /\ cfg.entry = "auth"
    /\ wire[r] # <<>>
    /\ outcome' = [outcome EXCEPT
                      ![r] = Append(@, AuthRecvOutcome(r, Head(wire[r])))]
    /\ wire' = [wire EXCEPT ![r] = Tail(@)]
    /\ UNCHANGED <<cfg, results, key, leakage_bits, errors_corrected, ledger, pc,
                   pass_index, local_parities, mismatched_blocks, stack,
                   search, chan, result, key0, searches, trips, sent,
                   auth_key, seen, tampers>>

\* Two sockets over one transport; the responder's is built with the
\* initiator's key or with another.
InitAuth ==
    \E kI \in {"k1"}, kR \in AuthKeys :
        /\ cfg = [n |-> 0, rng_seed |-> 0, num_passes |-> 0,
                  initial_block_size |-> InitialBlockSize(ScenarioBlockSize),
                  entry |-> "auth"]
        /\ Idle(<<>>, <<>>)
        /\ search = [r \in Roles |-> NoSearch]
        /\ pc = [r \in Roles |-> "auth"]
        /\ auth_key = [initiator |-> kI, responder |-> kR]
        /\ wire = [r \in Roles |-> <<>>]
        /\ outcome = [r \in Roles |-> <<>>]
        /\ seen = {}
        /\ tampers = 0

NextAuth ==
    \E r \in Roles :
        \/ AuthSend(r)
        \/ Tamper(r)
        \/ AuthRecv(r)

SpecAuth == InitAuth /\ [][NextAuth]_vars

(***************************************************************************)
(* Vocabulary of the properties.                                           *)
(***************************************************************************)
\* r is suspended in recv_structured.
Waiting(r) == pc[r] \in {"recv_parities", "bs_wait", "bs_resp"}

\* r's coroutine has returned or raised.
Ended(r) == pc[r] \in {"done", "error"}

BothReturned == \A r \in Roles : pc[r] = "done"

\* No party can take another step: each has ended or waits on an empty
\* channel.
Quiescent == \A r \in Roles : Ended(r) \/ (Waiting(r) /\ chan[r] = <<>>)

KeysEqual == key["initiator"] = key["responder"]

\* The positions in which the keys differed at construction.
Diff0 == Diff(key0["initiator"], key0["responder"])

ErrorsIn(blk) == {i \in Diff0 : InBlock(blk, i)}

SameBlock(p, i, j) ==
    \E b \in 1..Len(OriginalBlocks(p)) :
        InBlock(OriginalBlocks(p)[b], i) /\ InBlock(OriginalBlocks(p)[b], j)

\* ceil(log2 k) and floor(log2 k) for k >= 1.
CeilLog2(k) == CHOOSE e \in 0..k : Pow2(e) >= k /\ (e = 0 \/ Pow2(e - 1) < k)

FloorLog2(k) == CHOOSE e \in 0..k : Pow2(e) <= k /\ k < Pow2(e + 1)

(***************************************************************************)
(* C1.  Convergence: for any two equal-length keys and identical seed,     *)
(* number of passes and block size, with enough passes (some pass leaves   *)
(* every block with at most one of the differing positions), both          *)
(* reconcile() calls return and the two keys are equal bit for bit.        *)
(***************************************************************************)
EnoughPasses ==
    \E p \in 0..(cfg.num_passes - 1) :
        \A b \in 1..Len(OriginalBlocks(p)) :
            Cardinality(ErrorsIn(OriginalBlocks(p)[b])) <= 1

C1_Convergence ==
    (cfg.entry = "reconcile" /\ EnoughPasses /\ Quiescent)
        => (BothReturned /\ KeysEqual)

(***************************************************************************)
(* C2.  Even errors in a block: when the two differing positions fall in   *)
(* the same block of a pass p and a later pass puts them in different      *)
(* blocks, both errors are located: both reconcile() calls return without  *)
(* error and the keys are equal.                                           *)
(***************************************************************************)
EvenThenSplit ==
    /\ Cardinality(Diff0) = 2
    /\ \E i, j \in Diff0 :
         /\ i # j
         /\ \E p, q \in 0..(cfg.num_passes - 1) :
              p < q /\ SameBlock(p, i, j) /\ ~SameBlock(q, i, j)

C2_EvenErrorsLocated ==
    (cfg.entry = "reconcile" /\ EvenThenSplit /\ Quiescent)
        => /\ BothReturned
           /\ KeysEqual
           /\ Diff(key["initiator"], key0["initiator"]) = Diff0

(***************************************************************************)
(* C3.  Single error end to end: keys of length 8 differing in exactly one *)
(* position, 2 passes, initial block size 4, any seed: both reconcile()    *)
(* calls return, the keys are equal, at least one error is counted as      *)
(* corrected and the returned leakage is positive.                         *)
(***************************************************************************)
C3_Scenario ==
    /\ cfg.entry = "reconcile"
    /\ cfg.n = ScenarioKeyLen
    /\ cfg.num_passes = 2
    /\ cfg.initial_block_size = ScenarioBlockSize
    /\ Cardinality(Diff0) = 1

C3_SingleError ==
    (C3_Scenario /\ Quiescent)
        => /\ BothReturned
           /\ KeysEqual
           /\ errors_corrected["initiator"] >= 1
           /\ \A r \in Roles :
                result[r].kind = "returned" /\ result[r].value > 0

C3_Witness ==
    /\ C3_Scenario
    /\ BothReturned
    /\ KeysEqual
    /\ key["initiator"] # key0["initiator"]
    /\ errors_corrected["initiator"] = 1
    /\ result["initiator"].value > 0

(***************************************************************************)
(* C4.  Lock-step: every binary search the initiator starts is answered by *)
(* the responder running the responder role for that same block, and no    *)
(* party ever receives a header it does not expect.                        *)
(***************************************************************************)
C4_LockStep ==
    /\ \A r \in Roles : result[r].kind # "RuntimeError"
    /\ ( /\ pc["responder"] = "bs_resp"
         /\ chan["responder"] # <<>>
         /\ Head(chan["responder"]).header = MSG_CASCADE_REQ )
        => search["responder"].blk = search["initiator"].blk

(***************************************************************************)
(* C5.  Deadlock freedom: no state is reachable in which a party is        *)
(* suspended in receive with nothing in flight towards it while its peer   *)
(* has returned or is itself suspended with nothing in flight towards it.  *)
(***************************************************************************)
Stuck ==
    \E r \in Roles :
        /\ Waiting(r)
        /\ chan[r] = <<>>
        /\ \/ pc[Peer(r)] = "done"
           \/ Waiting(Peer(r)) /\ chan[Peer(r)] = <<>>

C5_DeadlockFree == ~Stuck

(***************************************************************************)
(* C6.  Leakage symmetry: whenever both reconcile() calls have returned,   *)
(* the two returned leakage values are equal.                              *)
(***************************************************************************)
C6_LeakageSymmetry ==
    (cfg.entry = "reconcile" /\ BothReturned)
        => result["initiator"].value = result["responder"].value

(***************************************************************************)
(* C7.  Only the initiator flips: during reconcile() the responder's key   *)
(* is never modified, whatever the block size.                             *)
(***************************************************************************)
C7_ResponderKeyUntouched ==
    cfg.entry = "reconcile" => key["responder"] = key0["responder"]

(***************************************************************************)
(* C8.  binary_search_initiator and binary_search_responder, run on a      *)
(* non-empty block on which the keys differ in an odd number of positions, *)
(* return the same index; it is an index of the block at which the keys    *)
(* differed; the initiator's bit at exactly that index is flipped and no   *)
(* other bit of either key changes; with exactly one differing position    *)
(* the keys agree on the whole block afterwards.                           *)
(***************************************************************************)
SearchedBlock == searches["initiator"][1]

C8_Case ==
    /\ cfg.entry = "direct"
    /\ searches["initiator"] # <<>>
    /\ Cardinality(ErrorsIn(SearchedBlock)) % 2 = 1

C8_BinarySearchLocates ==
    C8_Case =>
        /\ key["responder"] = key0["responder"]
        /\ Diff(key["initiator"], key0["initiator"]) \subseteq
              ErrorsIn(SearchedBlock)
        /\ Quiescent =>
             /\ BothReturned
             /\ result["initiator"] = result["responder"]
             /\ result["initiator"].value \in ErrorsIn(SearchedBlock)
             /\ key["initiator"] =
                   Flip(key0["initiator"], result["initiator"].value)
             /\ Cardinality(ErrorsIn(SearchedBlock)) = 1 =>
                   \A k \in 1..Len(SearchedBlock) :
                       key["initiator"][SearchedBlock[k]]
                           = key["responder"][SearchedBlock[k]]

C8_Witness ==
    /\ C8_Case
    /\ BothReturned
    /\ Len(SearchedBlock) >= 4
    /\ SearchedBlock[1] > SearchedBlock[2]
    /\ Cardinality(ErrorsIn(SearchedBlock)) = 3
    /\ key["initiator"] # key0["initiator"]

(***************************************************************************)
(* C9.  As claimed: a binary search on a block of size k >= 2 performs     *)
(* exactly ceil(log2 k) CASCADE_REQ/CASCADE_PARITY round trips, whatever   *)
(* the position of the error.                                              *)
(***************************************************************************)
SearchFinished ==
    /\ cfg.entry \in {"direct", "block"}
    /\ pc["initiator"] = "done"
    /\ searches["initiator"] # <<>>
    /\ Len(SearchedBlock) >= 2

Outcomes(r) == {outcome[r][i] : i \in 1..Len(outcome[r])}

DeliveredOnlyIfVerified ==
    \A r \in Roles : \A o \in Outcomes(r) :
        o.kind = "returned" =>
            /\ o.env.shape = "pair"
            /\ o.env.tag =
                   compute_hmac(auth_key[r],
                                Utf8(o.env.header)
                                    \o serialize_payload(o.env.payload))
            /\ o.msg = Msg(o.env.header, o.env.payload)

AlteredInTransit(envelope) ==
    \/ envelope.header # envelope.orig.header
    \/ envelope.payload # envelope.orig.payload
    \/ envelope.tag # envelope.orig.tag

AlteredNeverDelivered ==
    \A r \in Roles : \A o \in Outcomes(r) :
        ( \/ AlteredInTransit(o.env)
          \/ auth_key[o.env.orig.from] # auth_key[r] )
            => o.kind # "returned"

C10_NoUnverifiedDelivery == DeliveredOnlyIfVerified /\ AlteredNeverDelivered

(***************************************************************************)
(* C11.  Every malformed envelope is rejected with an Integrity error:     *)
(* when the payload of the received envelope is not a pair, or its second  *)
(* element is not a byte string, or is a byte string of the wrong size,    *)
(* recv_structured raises IntegrityError and no other error, and returns   *)
(* no payload.                                                             *)
(***************************************************************************)
Malformed(envelope) ==
    \/ envelope.shape # "pair"
    \/ envelope.tag.kind # "bytes"
    \/ envelope.tag = ShortTag

C11_MalformedIsIntegrityError ==
    \A r \in Roles : \A o \in Outcomes(r) :
        Malformed(o.env) => (o.kind = "IntegrityError" /\ o.msg = NoMsg)

(***************************************************************************)
(* C12.  Authenticated round trip: the envelope send_structured produces   *)
(* under key K is (header, (payload, tag)) with tag the MAC under K of the *)
(* header bytes followed by the payload bytes; delivered unmodified to     *)
(* recv_structured under the same K it is accepted, and the caller gets    *)
(* exactly the header and payload that were sent, without the tag.  So     *)
(* with an untouched transport every message arrives as over the bare      *)
(* channel.                                                                *)
(***************************************************************************)
Unmodified(envelope) ==
    /\ envelope.shape = "pair"
    /\ ~AlteredInTransit(envelope)

C12_RoundTrip ==
    /\ tampers = 0 =>
         \A r \in Roles : \A i \in 1..Len(wire[r]) :
             LET e == wire[r][i]
             IN  /\ e.shape = "pair"
                 /\ e.header = e.orig.header /\ e.payload = e.orig.payload
                 /\ e.tag = compute_hmac(auth_key[e.orig.from],
                                         Utf8(e.header)
                                             \o serialize_payload(e.payload))
    /\ \A r \in Roles : \A o \in Outcomes(r) :
         (Unmodified(o.env) /\ auth_key[o.env.orig.from] = auth_key[r])
            => /\ o.kind = "returned"
               /\ o.msg = Msg(o.env.orig.header, o.env.orig.payload)

C12_Witness ==
    \E o \in Outcomes("responder") :
        /\ auth_key["initiator"] = auth_key["responder"]
        /\ Unmodified(o.env)
        /\ o.env.orig.from = "initiator"
        /\ o.kind = "returned"
        /\ o.env.payload.type = "list"
        /\ Len(o.env.header) = 2
        /\ tampers > 0

(***************************************************************************)
(* C13.  Failures are fatal and never swallowed: a party that receives, at *)
(* any receive point of reconcile(), a message whose header is not         *)
(* expected there or whose tag fails verification ends with an error at    *)
(* that receive; from then on it sends nothing, flips no bit and changes   *)
(* neither counter.                                                        *)
(***************************************************************************)
ExpectedHeaders(r) ==
    IF pc[r] = "recv_parities" THEN {MSG_BLOCK_PARITIES}
    ELSE IF pc[r] = "bs_wait" THEN {MSG_CASCADE_PARITY}
    ELSE IF pc[r] = "bs_resp" THEN {MSG_CASCADE_REQ, MSG_CASCADE_DONE}
    ELSE {}

Receives(r) == chan[r] # <<>> /\ chan'[r] = Tail(chan[r])

Frozen(r) ==
    /\ key'[r] = key[r]
    /\ sent'[r] = sent[r]
    /\ leakage_bits'[r] = leakage_bits[r]
    /\ errors_corrected'[r] = errors_corrected[r]
    /\ chan'[Peer(r)] = chan[Peer(r)]

FatalStep ==
    \A r \in Roles :
        /\ ( /\ Receives(r)
             /\ Head(chan[r]).header \notin ExpectedHeaders(r) )
            => /\ pc'[r] = "error"
               /\ result'[r].kind = RecvFailure(Head(chan[r]).header)
               /\ Frozen(r)
        /\ pc[r] = "error"
            => /\ pc'[r] = "error"
               /\ result'[r] = result[r]
               /\ Frozen(r)

C13_FailuresAreFatal == [][FatalStep]_vars

C13_Witness ==
    /\ pc["initiator"] = "error"
    /\ result["initiator"].kind = "IntegrityError"
    /\ key["initiator"] # key0["initiator"]
    /\ sent["initiator"] > 1
    /\ pc["responder"] = "done"

(***************************************************************************)
(* C14.  Backtracking terminates: every recursive _backtrack call is made  *)
(* with a pass index strictly smaller than its caller's and examines only  *)
(* blocks of strictly earlier passes, so at most p calls are nested inside *)
(* the one made in pass p; and every run of reconcile() comes to an end    *)
(* with all its _backtrack calls completed and both parties returned.      *)
(***************************************************************************)
BacktrackWellFounded ==
    \A r \in Roles : \A k \in 1..Len(stack[r]) :
        /\ stack[r][k].cur <= pass_index[r]
        /\ k > 1 => stack[r][k].cur < stack[r][k - 1].cur
        /\ \A j \in 1..Len(stack[r][k].todo) :
               stack[r][k].todo[j][1] < stack[r][k].cur
        /\ Len(stack[r]) <= pass_index[r] + 1

C14_BacktrackTerminates ==
    /\ BacktrackWellFounded
    /\ (cfg.entry = "reconcile" /\ Quiescent)
          => \A r \in Roles : stack[r] = <<>> /\ pc[r] = "done"

(***************************************************************************)
(* Repeated runs, as test_reproducible_results makes them: when a run has  *)
(* come to rest its final keys and counters are appended to results and    *)
(* two fresh reconciliators are built over a fresh socket pair with the    *)
(* same arguments.                                                         *)
(***************************************************************************)
RunOutcome ==
    [key |-> key, leakage |-> leakage_bits, errors |-> errors_corrected]

Rerun ==
    /\ cfg.entry = "reconcile"
    /\ Quiescent
    /\ Len(results) < MaxRuns - 1
    /\ results' = Append(results, RunOutcome)
    /\ key' = key0
    /\ leakage_bits' = [r \in Roles |-> 0]
    /\ errors_corrected' = [r \in Roles |-> 0]
    /\ ledger' = [r \in Roles |-> <<>>]
    /\ pass_index' = [r \in Roles |-> 0]
    /\ local_parities' = [r \in Roles |-> <<>>]
    /\ mismatched_blocks' = [r \in Roles |-> <<>>]
    /\ stack' = [r \in Roles |-> <<>>]
    /\ chan' = [r \in Roles |-> <<>>]
    /\ result' = [r \in Roles |-> NoResult]
    /\ searches' = [r \in Roles |-> <<>>]
    /\ trips' = 0
    /\ sent' = [r \in Roles |-> 0]
    /\ search' = [r \in Roles |-> NoSearch]
    /\ pc' = [r \in Roles |-> "pass"]
    /\ UNCHANGED <<cfg, key0, authVars>>

NextRepeat ==
    \/ \E r \in Roles :
        \/ RunPass(r)
        \/ Return(r)
        \/ RecvBlockParities(r)
        \/ SearchBlock(r)
        \/ EndPass(r)
        \/ BinarySearchInitiatorStep(r)
        \/ BinarySearchInitiatorRecv(r)
        \/ BinarySearchResponderRecv(r)
        \/ BacktrackBlock(r)
        \/ BacktrackReturn(r)
    \/ Rerun

\* The arguments of the repeated runs: one seed, the full number of passes.
InitRepeat ==
    \E n \in ScenarioKeyLen..MaxKeyLen :
      \E kR \in ResponderKeys(n), E \in ErrorSets(n) :
        /\ cfg = [n |-> n, rng_seed |-> 0, num_passes |-> MaxPasses,
                  initial_block_size |-> InitialBlockSize(ScenarioBlockSize),
                  entry |-> "reconcile"]
        /\ Idle(WithErrors(kR, E), kR)
        /\ search = [r \in Roles |-> NoSearch]
        /\ pc = [r \in Roles |-> "pass"]
        /\ NoAuth

SpecRepeat == InitRepeat /\ [][NextRepeat]_vars

(***************************************************************************)
(* C15.  Determinism: a run started from the same key pair, seed, number   *)
(* of passes and initial block size as an earlier run ends with the same   *)
(* final keys, the same leakage counts and the same error-correction       *)
(* counts as that run, whatever the interleaving of the parties' steps in  *)
(* either run.                                                             *)
(***************************************************************************)
C15_Determinism ==
    (cfg.entry = "reconcile" /\ Quiescent)
        => \A i \in 1..Len(results) : results[i] = RunOutcome

C15_Witness ==
    /\ cfg.entry = "reconcile"
    /\ results # <<>>
    /\ BothReturned
    /\ errors_corrected["initiator"] >= 2
    /\ leakage_bits["initiator"] > 0
    /\ results[1] = RunOutcome

(***************************************************************************)
(* C16.  Error-count symmetry: whenever both reconcile() calls have        *)
(* returned, get_errors_corrected() of the initiator equals                *)
(* get_errors_corrected() of the responder.                                *)
(***************************************************************************)
C16_ErrorCountSymmetry ==
    (cfg.entry = "reconcile" /\ BothReturned)
        => errors_corrected["initiator"] = errors_corrected["responder"]

(***************************************************************************)
(* C17.  Identical keys are left alone: when the two parties start with    *)
(* identical keys, no CASCADE_REQ, CASCADE_PARITY or CASCADE_DONE message  *)
(* is ever sent, neither key is modified, both error counters stay 0, and  *)
(* both parties return as leakage the total number of blocks over all      *)
(* passes.                                                                 *)
(***************************************************************************)
\* Blocks of pass p: one per multiple of the block size below the key length.
BlocksInPass(p) ==
    Cardinality({s \in 0..(cfg.n - 1) : s % PassBlockSize(p) = 0})

RECURSIVE BlocksInPasses(_)
BlocksInPasses(num) ==
    IF num = 0 THEN 0 ELSE BlocksInPasses(num - 1) + BlocksInPass(num - 1)

SearchHeaders == {MSG_CASCADE_REQ, MSG_CASCADE_PARITY, MSG_CASCADE_DONE}

C17_IdenticalKeysLeftAlone ==
    (cfg.entry = "reconcile" /\ Diff0 = {})
        => /\ \A r \in Roles :
                /\ \A i \in 1..Len(chan[r]) :
                      chan[r][i].header \notin SearchHeaders
                /\ searches[r] = <<>>
                /\ key[r] = key0[r]
                /\ errors_corrected[r] = 0
                /\ pc[r] # "error"
                /\ pc[r] = "done"
                      => result[r] = [kind |-> "returned",
                                      value |-> BlocksInPasses(cfg.num_passes)]
           /\ Quiescent => BothReturned

C17_Witness ==
    /\ cfg.entry = "reconcile"
    /\ Diff0 = {}
    /\ BothReturned
    /\ cfg.num_passes = 2
    /\ cfg.n % cfg.initial_block_size # 0
    /\ result["initiator"].value = BlocksInPasses(2)
    /\ result["responder"].value = BlocksInPasses(2)
    /\ sent["initiator"] = 2
    /\ sent["responder"] = 2

(***************************************************************************)
(* C18.  In every pass, the BLOCK_PARITIES exchange raises each party's    *)
(* leakage counter by exactly the number of blocks of that pass, whether   *)
(* or not any block mismatches, and each binary search adds to it only the *)
(* search's own cost; no other step changes the counter.                   *)
(***************************************************************************)
ExchangeDone(r) == pc[r] = "recv_parities" /\ pc'[r] = "blocks"

SearchOpened(r) == searches'[r] # searches[r]

LeakageStep(r) ==
    LET added == leakage_bits'[r] - leakage_bits[r]
    IN  /\ ExchangeDone(r) => added = BlocksInPass(pass_index[r])
        /\ SearchOpened(r) =>
              /\ Len(searches'[r]) = Len(searches[r]) + 1
              /\ added = CeilLog2(Len(searches'[r][Len(searches'[r])]))
        /\ ~ExchangeDone(r) /\ ~SearchOpened(r) => added = 0

C18_LeakageAccounting ==
    [][cfg.entry = "reconcile" => \A r \in Roles : LeakageStep(r)]_vars

C18_Witness ==
    /\ cfg.entry = "reconcile"
    /\ BothReturned
    /\ cfg.num_passes = 2
    /\ \E r \in Roles :
          /\ Len(searches[r]) >= 2
          /\ leakage_bits[r] > BlocksInPasses(2) + 2
    /\ \E p \in 0..1 : \A b \in 1..Len(ledger["initiator"][p + 1]) :
          ledger["initiator"][p + 1][b] = ledger["responder"][p + 1][b]

(***************************************************************************)
(* Runs with more passes than the key has doublings: from the third pass   *)
(* on the block size is larger than the key.                               *)
(***************************************************************************)
InitSchedule ==
    \E n \in ScenarioKeyLen..MaxKeyLen, num_passes \in 1..SchedulePasses :
      \E kR \in ResponderKeys(n), E \in ErrorSets(n) :
        /\ cfg = [n |-> n, rng_seed |-> 0, num_passes |-> num_passes,
                  initial_block_size |-> InitialBlockSize(ScenarioBlockSize),
                  entry |-> "reconcile"]
        /\ Idle(WithErrors(kR, E), kR)
        /\ search = [r \in Roles |-> NoSearch]
        /\ pc = [r \in Roles |-> "pass"]
        /\ NoAuth

SpecSchedule == InitSchedule /\ [][Next]_vars

(***************************************************************************)
(* C19.  Pass schedule: reconcile() runs passes 0..N-1 in increasing       *)
(* order, each exactly once, and pass p uses block size                    *)
(* initial_block_size * 2^p, also when that size exceeds the key length.   *)
(***************************************************************************)
ScheduledBlockSize(p) == cfg.initial_block_size * Pow2(p)

\* The parities of the key over chunks of the given size of the permuted key.
ChunkParities(k, p, size) ==
    LET permutation == permute_indices(cfg.n, cfg.rng_seed, p)
        nb == Cardinality({s \in 0..(cfg.n - 1) : s % size = 0})
    IN  [b \in 1..nb |->
            SumBits(k, [j \in 1..(Min2(b * size, cfg.n) - (b - 1) * size) |->
                           permutation[(b - 1) * size + j - 1]]) % 2]

PassStep(r) ==
    /\ pass_index'[r] \in {pass_index[r], pass_index[r] + 1}
    /\ pass_index'[r] <= cfg.num_passes
    /\ (pc[r] = "pass" /\ pc'[r] = "recv_parities") =>
          /\ Len(ledger[r]) = pass_index[r]
          /\ PassBlockSize(pass_index[r]) = ScheduledBlockSize(pass_index[r])
          /\ local_parities'[r] =
                ChunkParities(key[r], pass_index[r],
                              ScheduledBlockSize(pass_index[r]))
    /\ pass_index'[r] # pass_index[r] => Len(ledger[r]) = pass_index'[r]
    /\ pc'[r] = "done" => pass_index'[r] = cfg.num_passes

C19_PassSchedule ==
    [][cfg.entry = "reconcile" => \A r \in Roles : PassStep(r)]_vars

C19_Witness ==
    /\ cfg.entry = "reconcile"
    /\ BothReturned
    /\ cfg.num_passes = SchedulePasses
    /\ ScheduledBlockSize(cfg.num_passes - 1) > cfg.n
    /\ \A r \in Roles : Len(ledger[r]) = cfg.num_passes
    /\ \A r \in Roles : Len(ledger[r][cfg.num_passes]) = 1
    /\ errors_corrected["initiator"] >= 1

(***************************************************************************)
(* CascadeReconciliator.__init__ on its own: the choice of the initial     *)
(* block size from the optional initial_block_size, the optional           *)
(* estimated_qber and the key length.  An optional argument is <<>> for    *)
(* None and <<v>> for a value; a QBER is a fraction num / den.             *)
(***************************************************************************)
\* utils.compute_optimal_block_size: 64 at or below 0, 4 from one half on,
\* max(4, ceil(0.73 / qber)) in between.
\* The quotient rounded down.
compute_floor_block_size(qber) ==
    IF qber.num <= 0 THEN 64
    ELSE IF 2 * qber.num >= qber.den THEN 4
    ELSE Max2(4, (73 * qber.den) \div (100 * qber.num))

compute_optimal_block_size(qber) ==
    IF qber.num <= 0 THEN 64
    ELSE IF 2 * qber.num >= qber.den THEN 4
    ELSE Max2(4, (73 * qber.den + 100 * qber.num - 1) \div (100 * qber.num))

\* __init__ lines 119-126.
SelectInitialBlockSize(initial_block_size, estimated_qber, key_length) ==
    IF initial_block_size # <<>>
    THEN InitialBlockSize(initial_block_size[1])
    ELSE IF estimated_qber # <<>> /\ estimated_qber[1].num > 0
    THEN compute_optimal_block_size(estimated_qber[1])
    ELSE Max2(MinBlockSize, key_length \div 50)

Overrides == {<<>>} \cup {<<v>> : v \in 0..MaxOverride}

Qbers ==
    {<<>>} \cup {<<[num |-> a, den |-> 1000]>> : a \in {0, 10, 50, 73, 250, 500}}

KeyLengths ==
    {50 * k + d : k \in 0..MaxFifties, d \in {ScenarioKeyLen, 49}}

Construct(r) ==
    /\ cfg.entry = "construct"
    /\ pc[r] = "new"
    /\ pc' = [pc EXCEPT ![r] = "built"]
    /\ result' = [result EXCEPT ![r] =
          [kind |-> "built",
           value |-> SelectInitialBlockSize(cfg.override, cfg.estimated_qber,
                                            cfg.n)]]
    /\ UNCHANGED <<cfg, results, authVars, key, leakage_bits, errors_corrected,
                   ledger, pass_index, local_parities, mismatched_blocks,
                   stack, search, chan, key0, searches, trips, sent>>

InitConstruct ==
    \E n \in KeyLengths, override \in Overrides, qber \in Qbers :
        /\ cfg = [n |-> n, rng_seed |-> 0, num_passes |-> 1,
                  initial_block_size |-> 0, entry |-> "construct",
                  override |-> override, estimated_qber |-> qber]
        /\ Idle([i \in 0..(n - 1) |-> 0], [i \in 0..(n - 1) |-> 0])
        /\ search = [r \in Roles |-> NoSearch]
        /\ pc = [r \in Roles |-> "new"]
        /\ NoAuth

NextConstruct == \E r \in Roles : Construct(r)

SpecConstruct == InitConstruct /\ [][NextConstruct]_vars

(***************************************************************************)
(* C20.  Initial block size selection: the block size of pass 0 is the     *)
(* explicit initial_block_size override when one is given, whatever its    *)
(* value; otherwise optimal_initial_block_size(estimated_qber) when an     *)
(* estimated QBER is given, including an estimate of 0; otherwise the      *)
(* fallback max(4, key_length / 50).                                       *)
(***************************************************************************)
C20_InitialBlockSizeSelection ==
    \A r \in Roles :
        (cfg.entry = "construct" /\ pc[r] = "built")
            => result[r].value =
                  IF cfg.override # <<>>
                  THEN cfg.override[1]
                  ELSE IF cfg.estimated_qber # <<>>
                  THEN compute_optimal_block_size(cfg.estimated_qber[1])
                  ELSE Max2(4, cfg.n \div 50)

(***************************************************************************)
(* verify.py: KeyVerifier.verify, the exchange protocol.py runs after      *)
(* reconciliation.  Alice sends KEY_VERIFY_SEED carrying the key length    *)
(* and returns True on any reply; Bob answers any message with             *)
(* KEY_VERIFY_RESULT {"match": True} and returns True.  No tag is          *)
(* computed on either side.                                                *)
(***************************************************************************)
MSG_KEY_VERIFY_SEED == "KEY_VERIFY_SEED"
MSG_KEY_VERIFY_RESULT == "KEY_VERIFY_RESULT"

\* verify() lines 50-52, is_alice: the seed message is sent.
VerifyAliceSend(r) ==
    /\ cfg.entry = "verify"
    /\ r = "initiator"
    /\ pc[r] = "verify"
    /\ chan' = Send(chan, r, MSG_KEY_VERIFY_SEED, [length |-> Cardinality(DOMAIN key[r])])
    /\ sent' = [sent EXCEPT ![r] = @ + 1]
    /\ pc' = [pc EXCEPT ![r] = "verify_reply"]
    /\ UNCHANGED <<cfg, results, authVars, key, leakage_bits, errors_corrected,
                   ledger, pass_index, local_parities, mismatched_blocks,
                   stack, search, result, key0, searches, trips>>

\* verify() lines 53-55, is_alice: the reply is received and dropped.
VerifyAliceRecv(r) ==
    /\ cfg.entry = "verify"
    /\ pc[r] = "verify_reply"
    /\ chan[r] # <<>>
    /\ chan' = [chan EXCEPT ![r] = Tail(@)]
    /\ pc' = [pc EXCEPT ![r] = "done"]
    /\ result' = [result EXCEPT ![r] = [kind |-> "returned", value |-> TRUE]]
    /\ UNCHANGED <<cfg, results, authVars, key, leakage_bits, errors_corrected,
                   ledger, pass_index, local_parities, mismatched_blocks,
                   stack, search, key0, searches, trips, sent>>

\* verify() lines 57-61, Bob: the seed message is received and dropped, the
\* result message is sent.
VerifyBobRecv(r) ==
    /\ cfg.entry = "verify"
    /\ r = "responder"
    /\ pc[r] = "verify"
    /\ chan[r] # <<>>
    /\ chan' = Send([chan EXCEPT ![r] = Tail(@)], r, MSG_KEY_VERIFY_RESULT,
                    [match |-> TRUE])
    /\ sent' = [sent EXCEPT ![r] = @ + 1]
    /\ pc' = [pc EXCEPT ![r] = "done"]
    /\ result' = [result EXCEPT ![r] = [kind |-> "returned", value |-> TRUE]]
    /\ UNCHANGED <<cfg, results, authVars, key, leakage_bits, errors_corrected,
                   ledger, pass_index, local_parities, mismatched_blocks,
                   stack, search, key0, searches, trips>>

\* The reconciled keys handed to verify(): equal, or differing in up to
\* MaxErrors positions.
InitVerify ==
    \E n \in ScenarioKeyLen..MaxKeyLen :
      \E kR \in ResponderKeys(n), E \in ErrorSets(n) :
        /\ cfg = [n |-> n, rng_seed |-> 0, num_passes |-> 0,
                  initial_block_size |-> 0, entry |-> "verify"]
        /\ Idle(WithErrors(kR, E), kR)
        /\ search = [r \in Roles |-> NoSearch]
        /\ pc = [r \in Roles |-> "verify"]
        /\ NoAuth

NextVerify ==
    \E r \in Roles :
        \/ VerifyAliceSend(r)
        \/ VerifyAliceRecv(r)
        \/ VerifyBobRecv(r)

SpecVerify == InitVerify /\ [][NextVerify]_vars

(***************************************************************************)
(* C21.  KeyVerifier reports equality faithfully: after one verification   *)
(* exchange both parties obtain match = true when their keys are equal     *)
(* and match = false when the keys differ, and a mismatch is returned as   *)
(* a value, never raised as an exception.                                  *)
(***************************************************************************)
C21_VerifierFaithful ==
    cfg.entry = "verify" =>
        \A r \in Roles :
            /\ pc[r] # "error"
            /\ pc[r] = "done" =>
                  result[r] = [kind |-> "returned",
                               value |-> (key["initiator"] = key["responder"])]

(***************************************************************************)
(* privacy.py and privacy/amplifier.py: PrivacyAmplifier.amplify.  Bit     *)
(* lists are sequences, position k of the list being element k + 1.  A     *)
(* matrix is a record of its shape and its rows.                           *)
(***************************************************************************)
BitSeqs(len) == [1..len -> {0, 1}]

\* s[:stop] for stop >= 0.
SliceTo(s, stop) == SubSeq(s, 1, Min2(stop, Len(s)))

\* s[start:]; a negative start counts from the end.
SliceFrom(s, start) ==
    LET from == IF start < 0 THEN Max2(Len(s) + start, 0)
                ELSE Min2(start, Len(s))
    IN  SubSeq(s, from + 1, Len(s))

\* A circulant matrix of the same shape: every diagonal is taken from c.
toeplitz_circulant(c, r) ==
    [nrows |-> Len(c), ncols |-> Len(r),
     rows |-> [i \in 1..Len(c) |->
                 [j \in 1..Len(r) |-> c[((i - j) % Len(c)) + 1]]]]

\* scipy.linalg.toeplitz(c, r): len(c) rows, len(r) columns, entry (i, j)
\* is c[i - j] on and below the diagonal and r[j - i] above it.
toeplitz(c, r) ==
    [nrows |-> Len(c), ncols |-> Len(r),
     rows |-> [i \in 1..Len(c) |->
                 [j \in 1..Len(r) |->
                     IF i >= j THEN c[i - j + 1] ELSE r[j - i + 1]]]]

\* T[:count, :]
FirstRows(T, count) ==
    [T EXCEPT !.nrows = Min2(count, T.nrows),
              !.rows = SubSeq(T.rows, 1, Min2(count, T.nrows))]

RECURSIVE DotFrom(_, _, _)
DotFrom(row, vec, j) ==
    IF j > Len(row) THEN 0 ELSE row[j] * vec[j] + DotFrom(row, vec, j + 1)

\* (T @ key_arr) % 2; numpy raises ValueError when the number of columns is
\* not the length of the vector.  A uint8 matrix gives uint8 sums, which wrap
\* at 256; a matrix of Python integers gives int64 sums, which a key of this
\* length cannot make wrap.
MatVecMod2(T, vec, uint8) ==
    IF T.ncols # Len(vec)
    THEN [kind |-> "ValueError", value |-> <<>>]
    ELSE [kind |-> "returned",
          value |-> [i \in 1..T.nrows |->
                        LET sum == DotFrom(T.rows[i], vec, 1)
                        IN  (IF uint8 THEN sum % 256 ELSE sum) % 2]]

\* privacy.py lines 45-54.
amplify(key_bits, seed, new_length) ==
    LET old_length == Len(key_bits)
    IN  IF Len(seed) # old_length + new_length - 1
        THEN [kind |-> "ValueError", value |-> <<>>]
        ELSE LET col == SliceTo(seed, new_length)
                 row == SliceFrom(seed, new_length - 1)
             IN  MatVecMod2(toeplitz(col, row), key_bits, TRUE)

\* privacy/amplifier.py lines 53-62.
amplify_toeplitz_seed(key_bits, toeplitz_seed, new_length) ==
    LET col == SliceTo(toeplitz_seed, Len(key_bits))
        row == SliceFrom(toeplitz_seed, Len(key_bits) - 1)
        T == FirstRows(toeplitz(col, row), new_length)
    IN  MatVecMod2(T, key_bits, FALSE)

Implementations == {"privacy.py", "privacy/amplifier.py"}

\* One party calls amplify on its key with the shared seed.
Amplify(r) ==
    /\ cfg.entry = "amplify"
    /\ pc[r] = "amplify"
    /\ LET out == IF cfg.impl = "privacy.py"
                  THEN amplify(key[r], cfg.seed, cfg.new_length)
                  ELSE amplify_toeplitz_seed(key[r], cfg.seed, cfg.new_length)
       IN  /\ result' = [result EXCEPT ![r] = out]
           /\ pc' = [pc EXCEPT ![r] =
                  IF out.kind = "returned" THEN "done" ELSE "error"]
    /\ UNCHANGED <<cfg, results, authVars, key, leakage_bits, errors_corrected,
                   ledger, pass_index, local_parities, mismatched_blocks,
                   stack, search, chan, key0, searches, trips, sent>>

InitAmplify ==
    \E n \in 1..MaxAmpKeyLen, new_length \in 0..MaxNewLen,
       len \in 0..MaxSeedLen, impl \in Implementations :
      \E k \in BitSeqs(n), seed \in BitSeqs(len) :
        /\ cfg = [n |-> n, rng_seed |-> 0, num_passes |-> 0,
                  initial_block_size |-> 0, entry |-> "amplify",
                  impl |-> impl, seed |-> seed, new_length |-> new_length]
        /\ Idle(k, k)
        /\ search = [r \in Roles |-> NoSearch]
        /\ pc = [r \in Roles |-> "amplify"]
        /\ NoAuth

NextAmplify == \E r \in Roles : Amplify(r)

SpecAmplify == InitAmplify /\ [][NextAmplify]_vars

(***************************************************************************)
(* C22.  Toeplitz seed-length contract: amplify(key, seed, new_length)     *)
(* fails with a contract error and produces no output whenever             *)
(* len(seed) # len(key) + new_length - 1, and otherwise returns exactly    *)
(* new_length bits.                                                        *)
(***************************************************************************)
SeedFits(r) == Len(cfg.seed) = Len(key[r]) + cfg.new_length - 1

Amplified(r) == cfg.entry = "amplify" /\ pc[r] \in {"done", "error"}

C22_SeedLengthContract ==
    \A r \in Roles :
        Amplified(r) =>
            IF SeedFits(r)
            THEN /\ result[r].kind = "returned"
                 /\ Len(result[r].value) = cfg.new_length
            ELSE result[r] = [kind |-> "ValueError", value |-> <<>>]

C22_Witness ==
    /\ cfg.entry = "amplify"
    /\ cfg.impl = "privacy/amplifier.py"
    /\ Len(key["initiator"]) = 2
    /\ cfg.new_length = 1
    /\ Len(cfg.seed) = 3
    /\ pc["initiator"] = "done"
    /\ Len(result["initiator"].value) = 1

(***************************************************************************)
(* C23.  Privacy amplification is a deterministic function of key and      *)
(* seed: output bit i is the XOR over j of T[i][j] AND key[j], where T is   *)
(* the m x n Toeplitz matrix whose first column is seed[0:m] and whose     *)
(* first row is seed[m-1:], so two parties holding the same key and seed   *)
(* obtain bit-identical secret keys.                                       *)
(***************************************************************************)
\* Entry (i, j), counted from 0, of the Toeplitz matrix of the seed.
ToeplitzEntry(i, j) ==
    IF i >= j THEN cfg.seed[(i - j) + 1]
    ELSE cfg.seed[(cfg.new_length - 1) + (j - i) + 1]

ToeplitzHashBit(k, i) ==
    Cardinality({j \in 0..(Len(k) - 1) :
                    ToeplitzEntry(i, j) = 1 /\ k[j + 1] = 1}) % 2

C23_ToeplitzHash ==
    /\ \A r \in Roles :
          (Amplified(r) /\ SeedFits(r) /\ pc[r] = "done") =>
              /\ Len(result[r].value) = cfg.new_length
              /\ \A i \in 0..(cfg.new_length - 1) :
                    result[r].value[i + 1] = ToeplitzHashBit(key[r], i)
    /\ (\A r \in Roles : Amplified(r)) =>
          result["initiator"] = result["responder"]

C23_Witness ==
    /\ cfg.entry = "amplify"
    /\ cfg.impl = "privacy.py"
    /\ cfg.new_length = 2
    /\ key["initiator"] = <<1, 1, 0>>
    /\ cfg.seed = <<1, 0, 0, 1>>
    /\ \A r \in Roles : pc[r] = "done" /\ result[r].value = <<1, 1>>

(***************************************************************************)
(* reconciliation/utils.py: compute_parity as a function of any bit array  *)
(* and any index list, and the bit flip of                                 *)
(* test_block_parity_changes_with_bit_flip.                                *)
(***************************************************************************)
\* key_arr[indices], line 61: numpy counts a negative index from the end.
NumpyIndices(bits, indices) ==
    [k \in 1..Len(indices) |->
        IF indices[k] < 0 THEN indices[k] + Cardinality(DOMAIN bits)
        ELSE indices[k]]

\* The whole call: the exception of lines 49-58 or the value of line 62.
compute_parity_call(bits, indices) ==
    LET raised == compute_parity_raises(bits, indices)
    IN  IF raised # "none" THEN [kind |-> raised, value |-> 0]
        ELSE [kind |-> "returned",
              value |-> compute_parity(bits, NumpyIndices(bits, indices))]

IndexLists(n) ==
    UNION {[1..len -> -1..n] : len \in 0..MaxIndices}

Parity(r) ==
    /\ cfg.entry = "parity"
    /\ pc[r] = "parity"
    /\ LET out == compute_parity_call(key[r], cfg.indices)
       IN  /\ result' = [result EXCEPT ![r] = out]
           /\ pc' = [pc EXCEPT ![r] =
                  IF out.kind = "returned" THEN "done" ELSE "error"]
    /\ UNCHANGED <<cfg, results, authVars, key, leakage_bits, errors_corrected,
                   ledger, pass_index, local_parities, mismatched_blocks,
                   stack, search, chan, key0, searches, trips, sent>>

\* key[i] ^= 1 for a selected index i, then the parity again.
FlipBit(r) ==
    /\ cfg.entry = "parity"
    /\ pc[r] = "done"
    /\ \E k \in 1..Len(cfg.indices) :
         LET i == cfg.indices[k]
             flipped == [key[r] EXCEPT ![i] = 1 - @]
             out == compute_parity_call(flipped, cfg.indices)
         IN  /\ key' = [key EXCEPT ![r] = flipped]
             /\ result' = [result EXCEPT ![r] = out]
             /\ results' = Append(results,
                    [role |-> r, index |-> i,
                     before |-> result[r].value, after |-> out.value])
    /\ pc' = [pc EXCEPT ![r] = "flipped"]
    /\ UNCHANGED <<cfg, authVars, leakage_bits, errors_corrected,
                   ledger, pass_index, local_parities, mismatched_blocks,
                   stack, search, chan, key0, searches, trips, sent>>

InitParity ==
    \E n \in 1..MaxParityLen :
      \E k \in [0..(n - 1) -> {0, 1}], indices \in IndexLists(n) :
        /\ cfg = [n |-> n, rng_seed |-> 0, num_passes |-> 0,
                  initial_block_size |-> 0, entry |-> "parity",
                  indices |-> indices]
        /\ Idle(k, k)
        /\ search = [r \in Roles |-> NoSearch]
        /\ pc = [r \in Roles |-> "parity"]
        /\ NoAuth

NextParity == \E r \in Roles : Parity(r) \/ FlipBit(r)

SpecParity == InitParity /\ [][NextParity]_vars

(***************************************************************************)
(* C24.  compute_parity(bits, indices) returns the XOR of exactly the bits *)
(* selected by indices, for every bit array and every non-empty list of    *)
(* in-range indices; flipping one selected bit flips the result.           *)
(***************************************************************************)
InRange(indices, n) ==
    /\ indices # <<>>
    /\ \A k \in 1..Len(indices) : indices[k] >= 0 /\ indices[k] < n

\* The XOR of the bits selected by the positions of the list.
XorSelected(k, indices) ==
    Cardinality({p \in 1..Len(indices) : k[indices[p]] = 1}) % 2

Occurrences(indices, i) ==
    Cardinality({p \in 1..Len(indices) : indices[p] = i})

ParityIsXor ==
    \A r \in Roles :
        (cfg.entry = "parity" /\ InRange(cfg.indices, cfg.n)
            /\ pc[r] # "parity") =>
            result[r] = [kind |-> "returned",
                         value |-> XorSelected(key[r], cfg.indices)]

\* The claim as stated: every flip of a selected bit changes the parity.
C24_ParityIsXorOfSelected ==
    /\ ParityIsXor
    /\ cfg.entry = "parity" =>
          \A f \in 1..Len(results) : results[f].before # results[f].after

\* C24 as the code has it: a bit selected several times is taken several
\* times, so a flip changes the parity exactly when the index of the bit
\* occurs an odd number of times in the list, as it does in every list
\* without repeated indices.
C24_ParityIsXorWithMultiplicity ==
    /\ ParityIsXor
    /\ cfg.entry = "parity" =>
          \A f \in 1..Len(results) :
              (results[f].before # results[f].after)
                  <=> (Occurrences(cfg.indices, results[f].index) % 2 = 1)

C24_Witness ==
    /\ cfg.entry = "parity"
    /\ cfg.indices = <<0, 2>>
    /\ key0["initiator"] = [j \in 0..2 |-> IF j = 1 THEN 0 ELSE 1]
    /\ pc["initiator"] = "flipped"
    /\ results = <<[role |-> "initiator", index |-> 2,
                    before |-> 0, after |-> 1]>>

(***************************************************************************)
(* C25.  compute_parity fails fast on bad input: an empty index list, or   *)
(* any index that is negative or >= len(bits), makes it fail with a        *)
(* bounds error instead of returning a parity.                             *)
(***************************************************************************)
C25_ParityFailsFast ==
    \A r \in Roles :
        (cfg.entry = "parity" /\ pc[r] # "parity") =>
            /\ cfg.indices = <<>> =>
                  pc[r] = "error" /\ result[r].kind = "ValueError"
            /\ (\E k \in 1..Len(cfg.indices) :
                    cfg.indices[k] < 0 \/ cfg.indices[k] >= cfg.n) =>
                  pc[r] = "error" /\ result[r].kind = "IndexError"

C25_Witness ==
    /\ cfg.entry = "parity"
    /\ cfg.n = 3
    /\ cfg.indices = <<-1, 0>>
    /\ pc["initiator"] = "error"
    /\ result["initiator"].kind = "IndexError"

(***************************************************************************)
(* C26.  In every pass the blocks, as lists of global key indices,         *)
(* partition [0, n): each index lies in exactly one block, every block     *)
(* but possibly the last has exactly the block size of the pass, the last  *)
(* block is non-empty and is shorter when n is not a multiple of the       *)
(* block size, and both parties derive the same blocks in the same order.  *)
(***************************************************************************)
Places(blocks, i) ==
    {bj \in (1..Len(blocks)) \X (1..cfg.n) :
        bj[2] <= Len(blocks[bj[1]]) /\ blocks[bj[1]][bj[2]] = i}

BlocksPartition(blocks, size) ==
    /\ \A i \in 0..(cfg.n - 1) : Cardinality(Places(blocks, i)) = 1
    /\ \A b \in 1..Len(blocks) :
          /\ \A j \in 1..Len(blocks[b]) : blocks[b][j] \in 0..(cfg.n - 1)
          /\ b < Len(blocks) => Len(blocks[b]) = size
    /\ Len(blocks) >= 1
    /\ Len(blocks[Len(blocks)]) \in 1..size
    /\ cfg.n % size # 0 => Len(blocks[Len(blocks)]) = cfg.n % size

C26_BlocksPartition ==
    cfg.entry = "reconcile" =>
        /\ \A r \in Roles :
              (pc[r] \in {"pass", "recv_parities"}
                  /\ pass_index[r] < cfg.num_passes) =>
                  BlocksPartition(OriginalBlocks(pass_index[r]),
                                  ScheduledBlockSize(pass_index[r]))
        /\ \A r \in Roles : \A p \in 0..(Len(ledger[r]) - 1) :
              /\ Len(ledger[r][p + 1]) = Len(OriginalBlocks(p))
              /\ \A q \in Roles :
                    p < Len(ledger[q]) =>
                        Len(ledger[q][p + 1]) = Len(ledger[r][p + 1])

C26_Witness ==
    /\ cfg.entry = "reconcile"
    /\ cfg.n = 10
    /\ \A r \in Roles : Len(ledger[r]) >= 2 /\ Len(ledger[r][2]) = 2
    /\ Len(OriginalBlocks(1)[1]) = 8
    /\ Len(OriginalBlocks(1)[2]) = 2
    /\ Len(OriginalBlocks(0)) = 3

(***************************************************************************)
(* C27.  find_affected_blocks(i, p) returns exactly the recorded blocks of *)
(* passes strictly earlier than p that contain index i: one block for each *)
(* such pass, none from pass p or a later pass, none that does not contain *)
(* i, and nothing for an index that was never recorded.                    *)
(***************************************************************************)
\* The (pass, block) pairs of the recorded passes before p whose block
\* holds index i.
EarlierBlocksWith(r, i, p) ==
    {e \in (0..(Len(ledger[r]) - 1)) \X (1..cfg.n) :
        /\ e[1] < p
        /\ e[2] <= Len(OriginalBlocks(e[1]))
        /\ InBlock(OriginalBlocks(e[1])[e[2]], i)}

RecordedPassesBefore(r, p) == {q \in 0..(Len(ledger[r]) - 1) : q < p}

\* record_block for every block of the next pass, as
\* _exchange_and_correct_blocks calls it: one parity per block.
RecordPass(r) ==
    /\ cfg.entry = "history"
    /\ pc[r] = "record"
    /\ Len(ledger[r]) < cfg.num_passes
    /\ LET blocks == OriginalBlocks(Len(ledger[r]))
       IN  ledger' = [ledger EXCEPT ![r] = Append(@,
               [b \in 1..Len(blocks) |-> compute_parity(key[r], blocks[b])])]
    /\ UNCHANGED <<cfg, results, authVars, key, leakage_bits, errors_corrected,
                   pass_index, local_parities, mismatched_blocks, result, pc,
                   stack, search, chan, key0, searches, trips, sent>>

\* find_affected_blocks(flipped_index, current_pass) on the manager.
Lookup(r) ==
    /\ cfg.entry = "history"
    /\ pc[r] = "record"
    /\ \E i \in -1..cfg.n, p \in 0..cfg.num_passes :
         result' = [result EXCEPT ![r] =
             [kind |-> "returned", value |-> find_affected_blocks(r, i, p),
              flipped_index |-> i, current_pass |-> p]]
    /\ pc' = [pc EXCEPT ![r] = "done"]
    /\ UNCHANGED <<cfg, results, authVars, key, leakage_bits, errors_corrected,
                   ledger, pass_index, local_parities, mismatched_blocks,
                   stack, search, chan, key0, searches, trips, sent>>

InitHistory ==
    \E n \in ScenarioKeyLen..MaxKeyLen, seed \in 0..MaxSeed,
       num_passes \in 1..SchedulePasses :
      \E k \in ResponderKeys(n) :
        /\ cfg = [n |-> n, rng_seed |-> seed, num_passes |-> num_passes,
                  initial_block_size |-> InitialBlockSize(ScenarioBlockSize),
                  entry |-> "history"]
        /\ Idle(k, k)
        /\ search = [r \in Roles |-> NoSearch]
        /\ pc = [r \in Roles |-> "record"]
        /\ NoAuth

\* One BacktrackManager, the initiator's.
NextHistory == RecordPass("initiator") \/ Lookup("initiator")

SpecHistory == InitHistory /\ [][NextHistory]_vars

C27_AffectedBlocks ==
    \A r \in Roles :
        (cfg.entry = "history" /\ pc[r] = "done") =>
            LET affected == result[r].value
                i == result[r].flipped_index
                p == result[r].current_pass
            IN  /\ {affected[k] : k \in 1..Len(affected)}
                      = EarlierBlocksWith(r, i, p)
                /\ Len(affected) =
                      IF i \in 0..(cfg.n - 1)
                      THEN Cardinality(RecordedPassesBefore(r, p))
                      ELSE 0
                /\ \A k \in 1..(Len(affected) - 1) :
                      affected[k][1] < affected[k + 1][1]

\* Three passes are recorded and the lookup for pass 2 has returned the
\* blocks of passes 0 and 1 that hold index 5.
C27_Witness ==
    /\ cfg.entry = "history"
    /\ pc["initiator"] = "done"
    /\ Len(ledger["initiator"]) = 3
    /\ result["initiator"].flipped_index = 5
    /\ result["initiator"].current_pass = 2
    /\ Len(result["initiator"].value) = 2
    /\ result["initiator"].value[1][1] = 0
    /\ result["initiator"].value[2][1] = 1

(***************************************************************************)
(* reconciliation/utils.py: compute_optimal_block_size on error rates      *)
(* given in thousandths, negative ones and ones above 0.5 included.        *)
(***************************************************************************)
QberInputs == {[num |-> a, den |-> 1000] : a \in (0 - MaxNegQber)..MaxQberNum}

OptimalBlockSize(r) ==
    /\ cfg.entry = "block_size"
    /\ pc[r] = "new"
    /\ result' = [result EXCEPT ![r] =
           [kind |-> "returned",
            value |-> compute_optimal_block_size(cfg.qber)]]
    /\ pc' = [pc EXCEPT ![r] = "done"]
    /\ UNCHANGED <<cfg, results, authVars, key, leakage_bits, errors_corrected,
                   ledger, pass_index, local_parities, mismatched_blocks,
                   stack, search, chan, key0, searches, trips, sent>>

InitBlockSize ==
    \E qber \in QberInputs :
        /\ cfg = [n |-> ScenarioKeyLen, rng_seed |-> 0, num_passes |-> 0,
                  initial_block_size |-> 0, entry |-> "block_size",
                  qber |-> qber]
        /\ Idle([i \in 0..(ScenarioKeyLen - 1) |-> 0],
                [i \in 0..(ScenarioKeyLen - 1) |-> 0])
        /\ search = [r \in Roles |-> NoSearch]
        /\ pc = [r \in Roles |-> "new"]
        /\ NoAuth

NextBlockSize == \E r \in Roles : OptimalBlockSize(r)

SpecBlockSize == InitBlockSize /\ [][NextBlockSize]_vars

(***************************************************************************)
(* C28.  optimal_initial_block_size(qber) returns 64 when qber <= 0, 4     *)
(* when qber >= 0.5 and max(4, ceil(0.73 / qber)) otherwise; the result is *)
(* never below 4 (10 for qber = 0.073).                                    *)
(***************************************************************************)
\* v = max(4, ceil(0.73 / (num / den))) for num > 0, without division:
\* v is at least 4 and at least the quotient, and when above 4 it is the
\* least such integer.
IsMaxOfFourAndCeil(v, num, den) ==
    /\ v >= 4
    /\ v * 100 * num >= 73 * den
    /\ v > 4 => (v - 1) * 100 * num < 73 * den

C28_OptimalBlockSize ==
    \A r \in Roles :
        (cfg.entry = "block_size" /\ pc[r] = "done") =>
            LET v == result[r].value
                num == cfg.qber.num
                den == cfg.qber.den
            IN  /\ result[r].kind = "returned"
                /\ v >= 4
                /\ num <= 0 => v = 64
                /\ 2 * num >= den => v = 4
                /\ (num > 0 /\ 2 * num < den) =>
                      IsMaxOfFourAndCeil(v, num, den)

C28_Witness ==
    /\ cfg.entry = "block_size"
    /\ cfg.qber = [num |-> 73, den |-> 1000]
    /\ pc["initiator"] = "done"
    /\ result["initiator"].value = 10

(***************************************************************************)
(* reconciliation/binary_search.py: calculate_binary_search_leakage on     *)
(* every block size up to MaxSearchSize, 0 and -1 included.                *)
(***************************************************************************)
SearchSizes == (0 - 1)..MaxSearchSize

SearchLeakage(r) ==
    /\ cfg.entry = "leakage"
    /\ pc[r] = "new"
    /\ result' = [result EXCEPT ![r] =
           [kind |-> "returned",
            value |-> calculate_binary_search_leakage(cfg.block_size)]]
    /\ pc' = [pc EXCEPT ![r] = "done"]
    /\ UNCHANGED <<cfg, results, authVars, key, leakage_bits, errors_corrected,
                   ledger, pass_index, local_parities, mismatched_blocks,
                   stack, search, chan, key0, searches, trips, sent>>

InitLeakage ==
    \E block_size \in SearchSizes :
        /\ cfg = [n |-> ScenarioKeyLen, rng_seed |-> 0, num_passes |-> 0,
                  initial_block_size |-> 0, entry |-> "leakage",
                  block_size |-> block_size]
        /\ Idle([i \in 0..(ScenarioKeyLen - 1) |-> 0],
                [i \in 0..(ScenarioKeyLen - 1) |-> 0])
        /\ search = [r \in Roles |-> NoSearch]
        /\ pc = [r \in Roles |-> "new"]
        /\ NoAuth

NextLeakage == \E r \in Roles : SearchLeakage(r)

SpecLeakage == InitLeakage /\ [][NextLeakage]_vars

(***************************************************************************)
(* C29.  calculate_binary_search_leakage(k) is ceil(log2 k) for k >= 2 and *)
(* 0 for k <= 1; block sizes 1, 2, 4, 5, 8 give 0, 1, 2, 3, 3.             *)
(***************************************************************************)
TestedLeakage == <<<<1, 0>>, <<2, 1>>, <<4, 2>>, <<5, 3>>, <<8, 3>>>>

C29_SearchLeakage ==
    \A r \in Roles :
        (cfg.entry = "leakage" /\ pc[r] = "done") =>
            LET k == cfg.block_size
                v == result[r].value
            IN  /\ k <= 1 => v = 0
                /\ k >= 2 =>
                      /\ v >= 1
                      /\ Pow2(v) >= k
                      /\ Pow2(v - 1) < k
                /\ \A t \in 1..Len(TestedLeakage) :
                      k = TestedLeakage[t][1] => v = TestedLeakage[t][2]

C29_Witness ==
    /\ cfg.entry = "leakage"
    /\ cfg.block_size = 5
    /\ pc["responder"] = "done"
    /\ result["responder"].value = 3

(***************************************************************************)
(* privacy/entropy.py: binary_entropy and compute_final_key_length.        *)
(* Probabilities are given in thousandths and real values in millionths;   *)
(* np.log2 is tabulated to the nearest millionth at the arguments used.    *)
(* For every input drawn below, the floor of the value in millionths is    *)
(* the floor of the double-precision value the code computes.              *)
(***************************************************************************)
\* np.log2(a / 1000) in millionths.
np_log2(a) ==
    CASE a = 10 -> 0 - 6643856
      [] a = 50 -> 0 - 4321928
      [] a = 110 -> 0 - 3184425
      [] a = 250 -> 0 - 2000000
      [] a = 500 -> 0 - 1000000
      [] a = 750 -> 0 - 415037
      [] a = 890 -> 0 - 168123
      [] a = 950 -> 0 - 74001
      [] a = 990 -> 0 - 14500

\* np.log2(1 / epsilon_sec) in millionths for epsilon_sec = 10^-e.
np_log2_inverse(e) ==
    CASE e = 6 -> 19931569
      [] e = 12 -> 39863137

\* binary_entropy(p), p in thousandths, the result in millionths.
binary_entropy(p) ==
    IF p <= 0 \/ p >= 1000 THEN 0
    ELSE ((0 - p * np_log2(p)) - (1000 - p) * np_log2(1000 - p)) \div 1000

\* The same value without the clamp at zero.
final_key_length_unclamped(reconciled_length, qber, leakage_ec, leakage_ver, epsilon_exp) ==
    LET security_margin == 2 * np_log2_inverse(epsilon_exp)
        available == reconciled_length * (1000000 - binary_entropy(qber))
        final_length == available - leakage_ec * 1000000
                            - leakage_ver * 1000000 - security_margin
    IN  final_length \div 1000000

compute_final_key_length(reconciled_length, qber, leakage_ec, leakage_ver, epsilon_exp) ==
    LET security_margin == 2 * np_log2_inverse(epsilon_exp)
        available == reconciled_length * (1000000 - binary_entropy(qber))
        final_length == available - leakage_ec * 1000000
                            - leakage_ver * 1000000 - security_margin
    IN  Max2(0, final_length \div 1000000)

ReconciledLengths == {100 * k : k \in 0..MaxHundreds}
QberThousandths ==
    {0 - 100, 0, 10, 50, 110, 250, 500, 750, 890, 950, 990, 1000, 1200}
LeakagesEc == {40 * k : k \in 0..MaxLeakSteps}
LeakagesVer == {0, 64, 128}
EpsilonExps == {6, 12}

FinalKeyLength(r) ==
    /\ cfg.entry = "entropy"
    /\ pc[r] = "new"
    /\ result' = [result EXCEPT ![r] =
           [kind |-> "returned",
            value |-> compute_final_key_length(cfg.reconciled_length,
                         cfg.qber, cfg.leakage_ec, cfg.leakage_ver,
                         cfg.epsilon_exp)]]
    /\ pc' = [pc EXCEPT ![r] = "done"]
    /\ UNCHANGED <<cfg, results, authVars, key, leakage_bits, errors_corrected,
                   ledger, pass_index, local_parities, mismatched_blocks,
                   stack, search, chan, key0, searches, trips, sent>>

InitEntropy ==
    \E reconciled_length \in ReconciledLengths, qber \in QberThousandths,
       leakage_ec \in LeakagesEc, leakage_ver \in LeakagesVer,
       epsilon_exp \in EpsilonExps :
        /\ cfg = [n |-> ScenarioKeyLen, rng_seed |-> 0, num_passes |-> 0,
                  initial_block_size |-> 0, entry |-> "entropy",
                  reconciled_length |-> reconciled_length, qber |-> qber,
                  leakage_ec |-> leakage_ec, leakage_ver |-> leakage_ver,
                  epsilon_exp |-> epsilon_exp]
        /\ Idle([i \in 0..(ScenarioKeyLen - 1) |-> 0],
                [i \in 0..(ScenarioKeyLen - 1) |-> 0])
        /\ search = [r \in Roles |-> NoSearch]
        /\ pc = [r \in Roles |-> "new"]
        /\ NoAuth

NextEntropy == \E r \in Roles : FinalKeyLength(r)

SpecEntropy == InitEntropy /\ [][NextEntropy]_vars

(***************************************************************************)
(* C30.  compute_final_key_length returns                                  *)
(* max(0, floor(n * (1 - h(QBER)) - leak_EC - leak_ver                     *)
(*              - 2 * log2(1 / eps_sec))),                                 *)
(* with h the binary entropy, taken as 0 at p = 0 and p = 1; the result is *)
(* never negative.                                                         *)
(***************************************************************************)
\* h(p) in millionths for 0 <= p <= 1, p in thousandths.
EntropyOf(p) ==
    IF p = 0 \/ p = 1000 THEN 0
    ELSE (0 - (p * np_log2(p) + (1000 - p) * np_log2(1000 - p))) \div 1000

\* n * (1 - h) - leak_EC - leak_ver - 2 * log2(1 / eps) in millionths.
SecretBits ==
    cfg.reconciled_length * (1000000 - EntropyOf(cfg.qber))
        - (cfg.leakage_ec + cfg.leakage_ver) * 1000000
        - 2 * np_log2_inverse(cfg.epsilon_exp)

C30_FinalKeyLength ==
    \A r \in Roles :
        (cfg.entry = "entropy" /\ pc[r] = "done") =>
            LET v == result[r].value
            IN  /\ v >= 0
                /\ cfg.qber \in 0..1000 =>
                      IF SecretBits < 0 THEN v = 0
                      ELSE /\ v * 1000000 <= SecretBits
                           /\ SecretBits < (v + 1) * 1000000

C30_Witness ==
    /\ cfg.entry = "entropy"
    /\ cfg.reconciled_length = 1000
    /\ cfg.qber = 110
    /\ cfg.leakage_ec = 200
    /\ cfg.leakage_ver = 64
    /\ cfg.epsilon_exp = 12
    /\ pc["initiator"] = "done"
    /\ result["initiator"].value = 156

(***************************************************************************)
(* C31.  Backtracking is complete: whenever a correction at index i        *)
(* during pass p leaves a block of an earlier pass that contains i with an *)
(* odd number of differences between the two keys, a binary search is run  *)
(* on that block by both parties before the run moves on to the next       *)
(* mismatched block of pass p, and backtracking recurses on the index      *)
(* that search corrects.                                                   *)
(***************************************************************************)
\* The positions of a block in which the two keys differ now.
DiffsIn(blk) ==
    {i \in Diff(key["initiator"], key["responder"]) : InBlock(blk, i)}

\* Party r is about to examine the next affected block of its innermost
\* _backtrack call, and this step does so.
ExaminesAffected(r) ==
    /\ pc[r] = "backtrack"
    /\ stack[r] # <<>>
    /\ stack[r][Len(stack[r])].todo # <<>>
    /\ stack'[r] # stack[r]

AffectedBlock(r) ==
    LET e == Head(stack[r][Len(stack[r])].todo)
    IN  OriginalBlocks(e[1])[e[2]]

BacktrackComplete(r) ==
    (ExaminesAffected(r) /\ Cardinality(DiffsIn(AffectedBlock(r))) % 2 = 1)
        => searches'[r] = Append(searches[r], AffectedBlock(r))

C31_BacktrackComplete == [][\A r \in Roles : BacktrackComplete(r)]_vars

(***************************************************************************)
(* C32.  Ledger parities are kept current: whenever no binary search is    *)
(* in progress (in particular at the end of every pass and when            *)
(* reconcile() returns), the cached parity of every recorded block equals  *)
(* the XOR of the owner's current key bits over that block's indices.      *)
(***************************************************************************)
InBinarySearch(r) == pc[r] \in {"bs_init", "bs_wait", "bs_resp"}

\* The parity of the owner's key over block b of pass p, as it is now.
CurrentParity(r, p, b) ==
    Cardinality({j \in 1..Len(OriginalBlocks(p)[b]) :
                    key[r][OriginalBlocks(p)[b][j]] = 1}) % 2

LedgerCurrent(r) ==
    \A p \in 0..(Len(ledger[r]) - 1) :
        \A b \in 1..Len(ledger[r][p + 1]) :
            ledger[r][p + 1][b] = CurrentParity(r, p, b)

C32_LedgerCurrent ==
    cfg.entry = "reconcile" =>
        \A r \in Roles : ~InBinarySearch(r) => LedgerCurrent(r)

(***************************************************************************)
(* Single runs of reconcile() from the arguments of the repeated runs:     *)
(* keys of ScenarioKeyLen..MaxKeyLen bits, MaxPasses passes, seed 0.       *)
(***************************************************************************)
SpecExchange == InitRepeat /\ [][Next]_vars

(***************************************************************************)
(* C33.  Block-parity exchange order: in every pass the initiator sends    *)
(* its BLOCK_PARITIES message before receiving, the responder sends its    *)
(* BLOCK_PARITIES message only after receiving the initiator's, exactly    *)
(* one BLOCK_PARITIES message travels in each direction per pass, and      *)
(* afterwards each party's remote parity vector equals the peer's local    *)
(* parity vector computed for that pass.                                   *)
(***************************************************************************)
\* The parities of r's key, as it is now, over the blocks of pass p.
ParityVector(r, p) ==
    [b \in 1..Len(OriginalBlocks(p)) |-> CurrentParity(r, p, b)]

BlockParitiesIn(ch) ==
    Cardinality({i \in 1..Len(ch) : ch[i].header = MSG_BLOCK_PARITIES})

\* Party r enters the exchange of its next pass.
StartsExchange(r) == pc[r] = "pass" /\ pc'[r] = "recv_parities"

\* Party r takes the peer's parities and goes on to the blocks of the pass.
EndsExchange(r) == pc[r] = "recv_parities" /\ pc'[r] = "blocks"

ExchangeOrder ==
    /\ StartsExchange("initiator") =>
          chan'["responder"] = Append(chan["responder"],
              [header |-> MSG_BLOCK_PARITIES,
               payload |-> ParityVector("initiator", pass_index["initiator"])])
    /\ StartsExchange("responder") => chan' = chan
    /\ EndsExchange("responder") =>
          /\ pc["initiator"] = "recv_parities"
          /\ pass_index["initiator"] = pass_index["responder"]
          /\ Head(chan["responder"]).payload = local_parities["initiator"]
          /\ Head(chan["responder"]).payload
                = ParityVector("initiator", pass_index["responder"])
          /\ chan'["responder"] = Tail(chan["responder"])
          /\ chan'["initiator"] = Append(chan["initiator"],
                [header |-> MSG_BLOCK_PARITIES,
                 payload |-> local_parities["responder"]])
    /\ EndsExchange("initiator") =>
          /\ Len(ledger["responder"]) > pass_index["initiator"]
          /\ Head(chan["initiator"]).payload
                = ledger["responder"][pass_index["initiator"] + 1]
          /\ chan' = [chan EXCEPT !["initiator"] = Tail(@)]
    /\ \A r \in Roles :
          BlockParitiesIn(chan'[r]) > BlockParitiesIn(chan[r]) =>
              StartsExchange("initiator") \/ EndsExchange("responder")

C33_ExchangeOrder ==
    [][cfg.entry = "reconcile" => ExchangeOrder]_vars

\* Both parties have been through the exchange of the second pass and a
\* block of that pass mismatches.
C33_Witness ==
    /\ cfg.entry = "reconcile"
    /\ \A r \in Roles :
          /\ Len(ledger[r]) = 2
          /\ pc[r] = "blocks"
          /\ mismatched_blocks[r] # <<>>
    /\ chan = [r \in Roles |-> <<>>]

(***************************************************************************)
(* C34.  Ledger recording: in pass p every block's local parity is         *)
(* recorded before the first binary search of pass p starts, so at that    *)
(* moment the ledger holds exactly one entry per block of passes 0..p,     *)
(* and the reverse index maps a bit index i to (q, b) exactly when block   *)
(* b of pass q was recorded and contains i; the ledger never loses an      *)
(* entry during a run.                                                     *)
(***************************************************************************)
\* The (pass, block) pairs of the recorded passes whose block holds i.
RecordedBlocksWith(r, i) ==
    {e \in (0..(Len(ledger[r]) - 1)) \X (1..cfg.n) :
        /\ e[2] <= Len(ledger[r][e[1] + 1])
        /\ InBlock(OriginalBlocks(e[1])[e[2]], i)}

LedgerRecorded(r) ==
    /\ Len(ledger[r]) = pass_index[r] + 1
    /\ \A q \in 0..pass_index[r] :
          Len(ledger[r][q + 1]) = BlocksInPass(q)
    /\ \A i \in 0..(cfg.n - 1) :
          LET entries == IndexToBlocks(r, i)
          IN  /\ {entries[k] : k \in 1..Len(entries)} = RecordedBlocksWith(r, i)
              /\ Len(entries) = Cardinality(RecordedBlocksWith(r, i))

LedgerKeeps(r) ==
    /\ Len(ledger'[r]) >= Len(ledger[r])
    /\ \A q \in 1..Len(ledger[r]) : Len(ledger'[r][q]) = Len(ledger[r][q])

LedgerStep(r) ==
    /\ LedgerKeeps(r)
    /\ SearchOpened(r) => LedgerRecorded(r)

C34_LedgerRecording ==
    [][cfg.entry = "reconcile" => \A r \in Roles : LedgerStep(r)]_vars

\* The initiator is inside the first search of the second pass.
C34_Witness ==
    /\ cfg.entry = "reconcile"
    /\ pc["initiator"] = "bs_wait"
    /\ pass_index["initiator"] = 1
    /\ search["initiator"].ret = "pass"
    /\ Len(ledger["initiator"]) = 2
    /\ Len(ledger["initiator"][1]) = 3
    /\ Len(ledger["initiator"][2]) = 2

(***************************************************************************)
(* C35.  Binary-search message discipline: CASCADE_REQ and CASCADE_DONE    *)
(* travel only from initiator to responder and CASCADE_PARITY only from    *)
(* responder to initiator; the responder sends exactly one CASCADE_PARITY  *)
(* per CASCADE_REQ received, carrying its local parity of exactly the      *)
(* requested index subset; the initiator never sends its next CASCADE_REQ  *)
(* or its CASCADE_DONE before receiving the reply to the previous          *)
(* request; each search ends with exactly one CASCADE_DONE carrying the    *)
(* found index.                                                            *)
(***************************************************************************)
CountOf(ch, headers) ==
    Cardinality({i \in 1..Len(ch) : ch[i].header \in headers})

\* The XOR of the owner's key bits at the listed indices.
XorOver(r, indices) ==
    Cardinality({j \in 1..Len(indices) : key[r][indices[j]] = 1}) % 2

\* The responder takes a CASCADE_REQ inside its search.
TakesRequest ==
    /\ pc["responder"] = "bs_resp"
    /\ chan["responder"] # <<>>
    /\ Head(chan["responder"]).header = MSG_CASCADE_REQ
    /\ chan'["responder"] = Tail(chan["responder"])

\* The initiator puts a search message on the channel.
InitiatorSends ==
    CountOf(chan'["responder"], {MSG_CASCADE_REQ, MSG_CASCADE_DONE})
        > CountOf(chan["responder"], {MSG_CASCADE_REQ, MSG_CASCADE_DONE})

SearchDiscipline ==
    /\ CountOf(chan'["initiator"], {MSG_CASCADE_REQ, MSG_CASCADE_DONE}) = 0
    /\ CountOf(chan'["responder"], {MSG_CASCADE_PARITY}) = 0
    /\ TakesRequest =>
          chan'["initiator"] = Append(chan["initiator"],
              [header |-> MSG_CASCADE_PARITY,
               payload |-> XorOver("responder",
                                   Head(chan["responder"]).payload)])
    /\ CountOf(chan'["initiator"], {MSG_CASCADE_PARITY})
          > CountOf(chan["initiator"], {MSG_CASCADE_PARITY}) => TakesRequest
    /\ InitiatorSends =>
          /\ pc["initiator"] = "bs_init"
          /\ CountOf(chan["responder"], {MSG_CASCADE_REQ}) = 0
          /\ CountOf(chan["initiator"], {MSG_CASCADE_PARITY}) = 0
          /\ LET s == search["initiator"]
                 sentMsg == chan'["responder"][Len(chan'["responder"])]
             IN  /\ chan'["responder"] = Append(chan["responder"], sentMsg)
                 /\ IF s.right - s.left > 1
                    THEN /\ sentMsg.header = MSG_CASCADE_REQ
                         /\ pc'["initiator"] = "bs_wait"
                    ELSE /\ sentMsg = [header |-> MSG_CASCADE_DONE,
                                       payload |-> s.blk[s.left + 1]]
                         /\ search'["initiator"] = NoSearch
    /\ (pc["initiator"] \in {"bs_init", "bs_wait"}
           /\ pc'["initiator"] \notin {"bs_init", "bs_wait", "error"}) =>
          CountOf(chan'["responder"], {MSG_CASCADE_DONE})
              = CountOf(chan["responder"], {MSG_CASCADE_DONE}) + 1

C35_SearchDiscipline ==
    [][cfg.entry = "reconcile" => SearchDiscipline]_vars

\* A search has ended: its CASCADE_DONE is on the way after two round trips.
C35_Witness ==
    /\ cfg.entry = "reconcile"
    /\ trips = 2
    /\ search["initiator"] = NoSearch
    /\ pc["responder"] = "bs_resp"
    /\ chan["responder"] # <<>>
    /\ Head(chan["responder"]).header = MSG_CASCADE_DONE
    /\ key["initiator"] # key0["initiator"]

(***************************************************************************)
(* C36.  Every bit flip made during reconcile() is at an index where the   *)
(* two parties' keys differed immediately before the flip, so the Hamming  *)
(* distance between the two keys never increases: a binary search is only  *)
(* ever run on a block that has an odd number of differences at the        *)
(* moment the search starts, including blocks whose mismatch was           *)
(* determined at the start of the pass and blocks reached by               *)
(* backtracking.                                                           *)
(***************************************************************************)
KeyDiff == Diff(key["initiator"], key["responder"])

FlipsAtDifferences ==
    \A r \in Roles : \A i \in 0..(cfg.n - 1) :
        key'[r][i] # key[r][i] => i \in KeyDiff

DistanceNeverGrows ==
    Cardinality(Diff(key'["initiator"], key'["responder"]))
        <= Cardinality(KeyDiff)

SearchesOddBlocks ==
    \A r \in Roles :
        SearchOpened(r) =>
            Cardinality(DiffsIn(searches'[r][Len(searches'[r])])) % 2 = 1

C36_FlipsOnlyErrors ==
    [][cfg.entry = "reconcile" =>
          FlipsAtDifferences /\ DistanceNeverGrows /\ SearchesOddBlocks]_vars

(***************************************************************************)
(* C37.  Leakage accounting is never an under-count: at every point of a   *)
(* run, each party's leakage counter is at least the number of block       *)
(* parities exchanged so far (one per block per pass) plus the number of   *)
(* CASCADE_PARITY replies that have actually crossed the channel.          *)
(***************************************************************************)
\* The exchange of a pass is complete when the initiator has taken the
\* responder's vector: the responder took the initiator's before replying.
ParitiesExchanged == BlocksInPasses(Len(ledger["initiator"]))

\* The responder sends one MSG_BLOCK_PARITIES per pass it has recorded and
\* nothing else but CASCADE_PARITY replies; a reply has crossed once the
\* initiator has taken it off the channel.
RepliesSent == sent["responder"] - Len(ledger["responder"])

RepliesCrossed ==
    RepliesSent - CountOf(chan["initiator"], {MSG_CASCADE_PARITY})

C37_NeverUnderCounts ==
    cfg.entry = "reconcile" =>
        \A r \in Roles :
            leakage_bits[r] >= ParitiesExchanged + RepliesCrossed

(***************************************************************************)
(* C38.  The responder discloses parities only of the block under search:  *)
(* binary_search_responder, called for a block B, sends a CASCADE_PARITY   *)
(* only for requested index subsets that are contained in B, and returns   *)
(* only an index that belongs to B.                                        *)
(***************************************************************************)
\* The responder, inside binary_search_responder, takes a message with the
\* given header.
ResponderTakes(header) ==
    /\ pc["responder"] = "bs_resp"
    /\ chan["responder"] # <<>>
    /\ Head(chan["responder"]).header = header
    /\ chan'["responder"] = Tail(chan["responder"])

SeqRange(q) == {q[k] : k \in 1..Len(q)}

RepliesWithinBlock ==
    (/\ ResponderTakes(MSG_CASCADE_REQ)
     /\ sent'["responder"] = sent["responder"] + 1)
        => SeqRange(Head(chan["responder"]).payload)
               \subseteq SeqRange(search["responder"].blk)

ReturnsWithinBlock ==
    ResponderTakes(MSG_CASCADE_DONE)
        => Head(chan["responder"]).payload
               \in SeqRange(search["responder"].blk)

C38_OnlyBlockUnderSearch ==
    [][RepliesWithinBlock /\ ReturnsWithinBlock]_vars

(***************************************************************************)
(* C39.  Channels are drained at completion: when both parties'            *)
(* reconcile() calls have returned, no sent message remains undelivered    *)
(* in either direction, so the next protocol phase (key verification)      *)
(* starts on empty channels.                                               *)
(***************************************************************************)
ChannelsEmpty == \A r \in Roles : chan[r] = <<>>

C39_ChannelsDrained ==
    (cfg.entry = "reconcile" /\ BothReturned) => ChannelsEmpty

\* Both calls have returned after a run with searches and backtracking.
C39_Witness ==
    /\ cfg.entry = "reconcile"
    /\ BothReturned
    /\ cfg.num_passes = 2
    /\ Len(searches["initiator"]) >= 2
    /\ searches["responder"] # <<>>
    /\ ChannelsEmpty

(***************************************************************************)
(* The transport under an adversary who alters nothing but delivers valid  *)
(* envelopes a second time, out of order, or back to their sender          *)
(* (auth/socket.py line 139 to line 167).                                  *)
(***************************************************************************)
\* An envelope on its way to r is delivered twice.
Duplicate(r) ==
    /\ cfg.entry = "auth"
    /\ tampers < MaxTampers
    /\ \E i \in 1..Len(wire[r]) :
         wire' = [wire EXCEPT ![r] = Append(@, wire[r][i])]
    /\ tampers' = tampers + 1
    /\ UNCHANGED <<cfg, results, key, leakage_bits, errors_corrected, ledger, pc,
                   pass_index, local_parities, mismatched_blocks, stack,
                   search, chan, result, key0, searches, trips, sent,
                   auth_key, outcome, seen>>

\* Two envelopes on their way to r change places.
Reorder(r) ==
    /\ cfg.entry = "auth"
    /\ tampers < MaxTampers
    /\ \E i \in 1..(Len(wire[r]) - 1) :
         /\ wire[r][i] # wire[r][i + 1]
         /\ wire' = [wire EXCEPT ![r][i] = wire[r][i + 1],
                                 ![r][i + 1] = wire[r][i]]
    /\ tampers' = tampers + 1
    /\ UNCHANGED <<cfg, results, key, leakage_bits, errors_corrected, ledger, pc,
                   pass_index, local_parities, mismatched_blocks, stack,
                   search, chan, result, key0, searches, trips, sent,
                   auth_key, outcome, seen>>

\* An envelope on its way to r is turned round and delivered to the party
\* that sent it.
Reflect(r) ==
    /\ cfg.entry = "auth"
    /\ tampers < MaxTampers
    /\ \E i \in 1..Len(wire[r]) :
         wire' = [wire EXCEPT
                     ![r] = SubSeq(@, 1, i - 1) \o SubSeq(@, i + 1, Len(@)),
                     ![Peer(r)] = Append(@, wire[r][i])]
    /\ tampers' = tampers + 1
    /\ UNCHANGED <<cfg, results, key, leakage_bits, errors_corrected, ledger, pc,
                   pass_index, local_parities, mismatched_blocks, stack,
                   search, chan, result, key0, searches, trips, sent,
                   auth_key, outcome, seen>>

NextReplay ==
    \E r \in Roles :
        \/ AuthSend(r)
        \/ Duplicate(r)
        \/ Reorder(r)
        \/ Reflect(r)
        \/ AuthRecv(r)

SpecReplay == InitAuth /\ [][NextReplay]_vars

(***************************************************************************)
(* C40.  No replay or reflection is accepted by the authenticated channel: *)
(* every message returned by recv_structured corresponds to a distinct     *)
(* send_structured call made by the peer (not by the receiving party       *)
(* itself), and messages are returned at most once each, even when an      *)
(* adversary on the transport duplicates, re-orders or reflects valid      *)
(* envelopes.                                                              *)
(***************************************************************************)
ReturnedAt(r) ==
    {i \in 1..Len(outcome[r]) : outcome[r][i].kind = "returned"}

\* What r was handed was sent by its peer, not by r itself.
NoReflectionAccepted ==
    \A r \in Roles : \A i \in ReturnedAt(r) :
        outcome[r][i].env.orig.from = Peer(r)

\* r was handed no more messages than its peer sent.
NoReplayAccepted ==
    \A r \in Roles : Cardinality(ReturnedAt(r)) <= sent[Peer(r)]

C40_NoReplayNoReflection ==
    cfg.entry = "auth" => NoReflectionAccepted /\ NoReplayAccepted


====
